---------------------------- MODULE Spec2Model ----------------------------
(***************************************************************************)
(* A model of the dopamine bot's cogs (src/cogs): the per-feature SQLite   *)
(* connection pools, the TTL caches, the background loops and the          *)
(* frequency-string functions of ScheduledMessages.                        *)
(*                                                                         *)
(* Every feature has its own variables and its own specification; the      *)
(* actions of one feature leave the variables of the others unchanged.     *)
(***************************************************************************)
EXTENDS Integers, Sequences, FiniteSets, TLC

VARIABLES
    \* ---- ScheduledMessages.parse_frequency / format_frequency ----
    fq_pc,          \* "input" | "parsed" | "formatted" | "reparsed"
    fq_input,       \* frequency_str, a sequence of characters
    fq_seconds,     \* parse_frequency(fq_input): None or <<n>>
    fq_text,        \* format_frequency(n), a sequence of characters
    fq_reparsed,    \* parse_frequency(fq_text)
    \* ---- the connection pool of one cog and the tasks that use it ----
    pl_feature,     \* the cog whose pool this is
    pl_pool,        \* the idle connections: the asyncio.Queue or the list _db_pool
    pl_pc,          \* per task: where it is in acquire / body / release
    pl_conn,        \* per task: the connection it got (0: none)
    pl_lock,        \* the owner of the pool's asyncio.Lock (0: unlocked)
    pl_lockq,       \* the tasks waiting for that lock, in arrival order
    pl_sem,         \* the value of _pool_semaphore
    pl_open,        \* the connections opened and not closed
    pl_initialized, \* ScheduledMessages._db_pool_initialized
    pl_closed,      \* AioSqlitePool._closed
    \* ---- Alerts: /alert, on_interaction, the position cache ----
    al_now,         \* time.time()
    al_ticks,       \* how often the clock has advanced
    al_read_count,  \* alerts.read_count of the current alert (committed)
    al_reads,       \* alert_reads of the current alert: user -> position (0: no row)
    al_cache,       \* _position_cache: user -> None or <<position, expiry, stored at>>
    al_cool,        \* _reminder_cooldowns: user -> expiry (0: no entry)
    al_dblock,      \* the task inside a BEGIN IMMEDIATE transaction (0: none)
    al_pool,        \* the number of idle connections in _pool
    al_pc,          \* per task: its position in alert / on_interaction
    al_user,        \* per task: interaction.user.id
    al_tnow,        \* per task: the handler's local now
    al_position,    \* per task: the handler's local position (0: unset)
    al_wrote,       \* per task: the transaction has an uncommitted insert
    al_lookup,      \* the last lookup that found a cache entry: <<stored at, now, served>>
    \* ---- ScheduledMessages: get_next_message_id and the setup modal ----
    id_now,         \* time.time()
    id_ticks,       \* how often the clock has advanced
    id_cache,       \* _max_message_id_cache[guild]: None or <<max id, ts>>
    id_rows,        \* the message_ids of the guild's scheduled_messages rows
    id_calls,       \* how many setups have been submitted
    id_pc,          \* per task: its position in on_submit / get_next_message_id
    id_tnow,        \* per task: the local now of get_next_message_id
    id_max,         \* per task: the local max_id
    id_msg,         \* per task: the message_id that get_next_message_id returned
    id_lookup,      \* the last lookup that found a cache entry: <<stored at, now, served>>
    \* ---- StarboardCog: the guild settings and their cache ----
    sb_now,         \* time.time()
    sb_ticks,       \* how often the clock has advanced
    sb_cache,       \* _settings_cache[guild]: None or <<star_threshold, expires_at, stored at>>
    sb_row,         \* the guild_settings row: None or <<star_threshold>>
    sb_queue,       \* the update_guild_setting items of _write_queue
    sb_pc,          \* per task: its position in get_guild_settings
    sb_tnow,        \* per task: the local now
    sb_settings,    \* per task: the local settings (0: unset)
    sb_lookup,      \* the last lookup that found a cache entry: <<stored at, now, served>>
    \* ---- ScheduledMessages: the rows and send_scheduled_messages ----
    sl_now,         \* the wall clock
    sl_rows,        \* message -> None or its row [frequency_seconds, next_send_time, started_at]
    sl_sent,        \* message -> how often channel.send delivered it
    sl_pc,          \* the loop: "off" | "wait" | "send" | "update"
    sl_due,         \* when tasks.loop starts the next iteration
    sl_current,     \* the iteration's current_time
    sl_todo,        \* the iteration's messages_to_send not yet handled
    sl_updates,     \* the iteration's updates
    sl_denied,      \* the messages whose send was refused with discord.Forbidden
    \* ---- StickyMessages: one active panel and its sticky message ----
    st_live,        \* the panel's sticky messages that exist in the channel
    st_ids,         \* how many messages the bot has sent (the last message id)
    st_db,          \* sticky_panels.last_message_id of the panel
    st_cache,       \* _active_panels[channel].last_message_id (0: no entry)
    st_pc,          \* the handler's position in on_message / sticky_monitor / update_sticky_message
    st_row,         \* last_message_id of the panel_row it was given
    st_new,         \* new_message.id (0: not sent)
    st_runs,        \* the update_sticky_message calls in succession, oldest first
    \* ---- the initialisation of one cog's connection pool ----
    ci_feature,     \* the cog whose pool is being built
    ci_pc,          \* "off" | "connect" | "sleep" | "opened" | "ready" | "raised"
    ci_conns,       \* the connections opened so far
    ci_attempts,    \* the calls of aiosqlite.connect made for the current connection
    ci_waits,       \* the asyncio.sleep delays between them, in milliseconds
    \* ---- the shutdown of the cog whose pool pl_ is ----
    sd_pc,          \* cog_unload / close: "off" | "idle" | "lock" | "loop" | "done"
    sd_i,           \* the connections its loop has passed
    \* ---- MemberCountTracker: the tracker rows, the cache and the monitor ----
    mt_row,         \* per guild: its member_tracker row, "none" | "active" | "inactive"
    mt_goal,        \* per guild: member_goal of the row (0: NULL)
    mt_cache,       \* per guild: _active_guild_counts.get(guild), None or <<count>>
    mt_members,     \* per guild: guild.member_count
    mt_pc,          \* member_count_monitor: "off" | "idle" | "scan"
    mt_todo,        \* the rest of cache_snapshot, pairs <<guild, last_member_count>>
    mt_updates,     \* bulk_last_count_updates, pairs <<count, guild>>
    mt_deact,       \* guilds_to_deactivate
    mt_fresh,       \* no command has run since the monitor took its snapshot
    mt_settled,     \* a monitor run begun after the last command has completed
    \* ---- StickyMessages: the panels assigned to one channel ----
    sp_row,         \* per panel: None (no sticky_panels row) or <<last_message_id>> (0: NULL)
    sp_cache,       \* _active_panels.get(channel): None or <<panel_id, last_message_id>>
    sp_live,        \* the sticky messages that exist in the channel
    sp_ids,         \* the last message id the bot was given
    sp_pc,          \* "off" | "run"
    \* ---- WelcomeCog: welcome_settings, the pooled connections and the cache ----
    wl_db,          \* per guild: channel_id of its committed welcome_settings row (0: no row)
    wl_tx,          \* per connection: None, or the table as its open transaction sees it
    wl_pool,        \* db_pool, the idle connections in queue order
    wl_cache,       \* per guild: welcome_cache[guild]["channel_id"] (0: no entry)
    wl_last,        \* the guild of the /welcome toggle that completed last (0: none)
    wl_pc,          \* "off" | "run"
    \* ---- Alerts: pushing an alert while /alert and on_interaction run ----
    ap_seq,         \* sqlite_sequence of alerts: the largest id AUTOINCREMENT has handed out
    ap_alerts,      \* the committed rows of alerts: [id, read_count]
    ap_reads,       \* the committed rows of alert_reads: <<alert_id, user_id, position>>
    ap_current,     \* _current_alert.id (0: None)
    ap_cache,       \* _position_cache: <<alert_id, user_id, position>>, one per key
    ap_cool,        \* _reminder_cooldowns: the users that have an entry
    ap_lock,        \* the task whose transaction holds the write lock (0: nobody)
    ap_task,        \* per task: [pc, alert, user, position, wrote]
    ap_report,      \* None, or <<alert_id, user_id, position>> of the footer sent in this step
    \* ---- StickyMessages.sticky_monitor: one iteration over the snapshot ----
    mo_active,      \* the channels that have an entry in _active_panels
    mo_snapshot,    \* the channels of active_snapshot of the current or last iteration
    mo_todo,        \* the part of active_snapshot the for loop has not reached yet
    mo_checked,     \* the channels whose panel the iteration has checked
    mo_failed,      \* the channels whose check raised: a fetch error or a database error
    mo_pc,          \* "off" | "idle" | "loop"
    \* ---- Haiku: haiku_queue and the worker tasks ----
    hk_queue,       \* haiku_queue: the ids of the queued messages, oldest first
    hk_sent,        \* how many messages on_message has put on the queue
    hk_waiting,     \* how many worker tasks are at `await self.haiku_queue.get()`
    hk_busy,        \* the messages that a worker task is processing
    hk_ended,       \* how many worker tasks have ended with an exception
    hk_handled,     \* the messages a worker has taken and run its processing on
    \* ---- MemberTrackerEditModal.on_submit on the pooled connection ----
    em_db,          \* the committed member_tracker row of the guild: [member_goal, custom_format, color]
    em_tx,          \* None, or <<row>> as the open transaction of the pooled connection sees it
    em_accepted,    \* the row as the submissions that were not rejected have set it
    em_rejected,    \* how many submissions the modal has rejected
    em_pc,          \* "off" | "run"
    \* ---- ScheduledMessageSetupModal.on_submit with its frequency check ----
    su_rows,        \* the guild's scheduled_messages rows: [message_id, frequency_seconds]
    su_cache,       \* _max_message_id_cache[guild]: None or <<max id>>
    su_last,        \* None, or <<the last submission>>: [text, outcome, rows, cache]
    su_pc,          \* "off" | "run"
    \* ---- StarboardCog._schedule_starboard_update and its tasks ----
    du_created,     \* how many update tasks have been created
    du_msg,         \* per task: the message of its payload (0: the task was not created)
    du_state,       \* per task: "none" | "delay" | "run" | "unwind" | "done" | "cancelled"
    du_entry,       \* per message: _starboard_tasks.get(message_id), a task (0: no entry)
    du_worked,      \* the tasks that got past the delay and began to process their payload
    du_pc,          \* "off" | "run"
    \* ---- StarboardCog: the star updates of one source message ----
    sr_map,         \* star_posts: starboard_message_id of the message's committed row (0: no row)
    sr_queue,       \* _write_queue: the queued star_posts writes, [op, post]
    sr_posts,       \* the starboard posts of the message that exist in the starboard channel
    sr_sent,        \* how many starboard posts have been sent
    sr_task,        \* per update task: [pc, count, existing]
    sr_last,        \* None, or <<what the update that acted in this step did>>
    \* ---- StickyMessages.on_message: which messages move the sticky message ----
    om_modes,       \* the active panel's [image_only_mode, member_whitelist_enabled, member_whitelist_id]
    om_live,        \* the id of the panel's sticky message in the channel
    om_db,          \* last_message_id of the panel's row
    om_cache,       \* last_message_id of the channel's _active_panels entry
    om_last,        \* None, or <<the last message event>>: [message, modes, live, db, cache]
    om_pc,          \* "off" | "run"
    \* StarboardCog.get_guild_settings called by concurrent tasks
    gs_rows,        \* guild_settings: per guild None or <<star_threshold>>
    gs_cache,       \* _settings_cache: per guild None or <<star_threshold>>
    gs_pc,          \* per task: its position in get_guild_settings
    gs_guild,       \* per task: guild_id
    gs_settings,    \* per task: the local settings (0: unset)
    gs_first,       \* per task: the SELECT found no row
    gs_result,      \* per task: how its last call ended: None, <<"returned", star_threshold>> or <<"raised">>
    gs_calls,       \* calls so far
    \* TempHideCog.handle_temphide and RevealView.reveal_button
    tm_posts,       \* per message id: None or <<the posted message>>
    tm_rows,        \* temp_messages: per message id None or <<user_id, hidden_text>>
    tm_views,       \* per message id: message_id of the RevealView its clicks reach
    tm_unstored,    \* messages sent whose store_message is still to run
    tm_pc,          \* per click task: its position in reveal_button
    tm_click,       \* per click task: <<user, message, the row existed at the click>>
    tm_data,        \* per click task: message_data
    tm_result,      \* per click task: how its last click ended (None: none yet)
    tm_clicks,      \* clicks so far
    \* StickyMessages: sticky_monitor and on_message handlers of one panel running concurrently
    sk_place,       \* "ok", or "no_channel" / "no_guild": get_channel / get_guild returns None
    sk_live,        \* the panel's sticky messages that exist in the channel
    sk_ids,         \* how many messages the bot has sent (the last message id)
    sk_db,          \* the sticky_panels row: None or <<last_message_id>> (0: NULL)
    sk_cache,       \* _active_panels[channel]: None or <<last_message_id>>
    sk_task,        \* per handler: kind, position, panel.last_message_id, panel_row's last_message_id, new_message.id
    sk_deleting,    \* /sticky delete has deleted the row and not yet the cache entry
    sk_tick,        \* the sticky_monitor check running or just ended alone: None or <<record>>
    sk_clean,       \* no call has failed and nobody else has deleted a message
    sk_runs,        \* handlers started so far
    \* StarboardCog /lfg posts and on_reaction_add
    lf_posted,      \* the LFG posts sent
    lf_creators,    \* the message ids in self.lfg_creators
    lf_count,       \* per post: members' star reactions (reaction.count without the bot's own)
    lf_pings,       \* per post: 'LFG Group Ready!' messages sent
    lf_task,        \* per handler: position in on_reaction_add and its message
    lf_raised,      \* a handler has ended with an exception
    \* ScheduledMessages: the commands of one guild, the autocomplete cache and the send loop
    sx_rows,        \* scheduled_messages: per message id None or [is_active, due (next_send_time <= now)]
    sx_cmd,         \* the command between its SELECT and its commit: None or <<kind, message_id>>
    sx_halted,      \* messages whose stop or delete has committed and that were not started since
    sx_pc,          \* the loop: "off" | "wait" | "send" | "update"
    sx_todo,        \* the iteration's messages_to_send not yet handled
    sx_updates,     \* the message ids of the iteration's updates
    sx_late,        \* messages that were sent while halted
    sx_cache,       \* _autocomplete_cache: per only_active key None or <<the cached ids>>
    sx_offer,       \* the autocomplete answer just given: None or <<only_active, the ids offered>>
    \* Alerts.on_interaction and /alert of the users of one current alert
    rm_read,        \* the users with an alert_reads row of the current alert
    rm_cache,       \* the users with a _position_cache entry
    rm_cool,        \* the users with a _reminder_cooldowns entry that has not expired
    rm_task,        \* per handler: position, user and the row its SELECT returned
    rm_count,       \* per user: reminders received since the user's last cooldown entry expired
    rm_unwanted,    \* the users who received a reminder after having read the alert
    \* HaikuDetector: /haiku detection enable and disable, refresh_active_channels, on_message
    hd_db,          \* haiku_settings: per guild None or <<channel_id, is_enabled>>
    hd_active,      \* self._active_channels: <<guild_id, channel_id>>
    hd_off,         \* the guilds whose disable has completed, not enabled since
    hd_last,        \* the message on_message has just handled: None or <<guild, channel, enqueued>>
    \* StarboardCog: _init_db_pool and get_db_connection
    qd_pool,        \* self._db_pool: None or <<pool, qsize>> (the Queue object and its length)
    qd_built,       \* how many Queue objects _init_db_pool has assigned so far
    qd_pc,          \* per task: where it is in get_db_connection
    qd_from,        \* per task: the pool its connection was taken from (0: no connection)
    qd_wait,        \* per task: the pool whose get() or put() it is suspended in (0: none)
    \* MemberCountTracker: self.lock and the pooled connections, by command
    lk_pc,          \* per task: where it is in its command
    lk_kind,        \* per task: the order in which its command takes lock and connection
    lk_conn,        \* per task: it has a pooled connection checked out
    lk_lock,        \* the owner of self.lock (0: unlocked)
    lk_lockq,       \* the tasks waiting for self.lock, in arrival order
    lk_plock,       \* the owner of self._pool_lock (0: unlocked)
    lk_plockq,      \* the tasks waiting for self._pool_lock, in arrival order
    lk_pool,        \* len(self._db_pool)
    lk_sem,         \* the value of self._pool_semaphore
    \* StickyMessages: the panel ids of a guild and get_next_panel_id
    np_rows,        \* per guild: the panel_id values of its sticky_panels rows
    np_modal,       \* per guild: the panel_id of the open PanelSetupModal (0: none)
    np_last         \* the last get_next_panel_id: None or <<guild, result, the ids then in use>>

fqVars == <<fq_pc, fq_input, fq_seconds, fq_text, fq_reparsed>>
plVars == <<pl_feature, pl_pool, pl_pc, pl_conn, pl_lock, pl_lockq, pl_sem, pl_open,
            pl_initialized, pl_closed>>

alVars == <<al_now, al_ticks, al_read_count, al_reads, al_cache, al_cool, al_dblock,
            al_pool, al_pc, al_user, al_tnow, al_position, al_wrote, al_lookup>>

idVars == <<id_now, id_ticks, id_cache, id_rows, id_calls, id_pc, id_tnow, id_max, id_msg,
            id_lookup>>
sbVars == <<sb_now, sb_ticks, sb_cache, sb_row, sb_queue, sb_pc, sb_tnow, sb_settings,
            sb_lookup>>

slVars == <<sl_now, sl_rows, sl_sent, sl_pc, sl_due, sl_current, sl_todo, sl_updates,
           sl_denied>>
stVars == <<st_live, st_ids, st_db, st_cache, st_pc, st_row, st_new, st_runs>>
ciVars == <<ci_feature, ci_pc, ci_conns, ci_attempts, ci_waits>>
sdVars == <<sd_pc, sd_i>>
mtVars == <<mt_row, mt_goal, mt_cache, mt_members, mt_pc, mt_todo, mt_updates,
            mt_deact, mt_fresh, mt_settled>>
spVars == <<sp_row, sp_cache, sp_live, sp_ids, sp_pc>>
wlVars == <<wl_db, wl_tx, wl_pool, wl_cache, wl_last, wl_pc>>
apVars == <<ap_seq, ap_alerts, ap_reads, ap_current, ap_cache, ap_cool, ap_lock,
            ap_task, ap_report>>
moVars == <<mo_active, mo_snapshot, mo_todo, mo_checked, mo_failed, mo_pc>>
hkVars == <<hk_queue, hk_sent, hk_waiting, hk_busy, hk_ended, hk_handled>>
emVars == <<em_db, em_tx, em_accepted, em_rejected, em_pc>>
suVars == <<su_rows, su_cache, su_last, su_pc>>
duVars == <<du_created, du_msg, du_state, du_entry, du_worked, du_pc>>
srVars == <<sr_map, sr_queue, sr_posts, sr_sent, sr_task, sr_last>>
omVars == <<om_modes, om_live, om_db, om_cache, om_last, om_pc>>
gsVars == <<gs_rows, gs_cache, gs_pc, gs_guild, gs_settings, gs_first, gs_result,
            gs_calls>>
tmVars == <<tm_posts, tm_rows, tm_views, tm_unstored, tm_pc, tm_click, tm_data,
            tm_result, tm_clicks>>
skVars == <<sk_place, sk_live, sk_ids, sk_db, sk_cache, sk_task, sk_deleting, sk_tick,
            sk_clean, sk_runs>>
lfVars == <<lf_posted, lf_creators, lf_count, lf_pings, lf_task, lf_raised>>
sxVars == <<sx_rows, sx_cmd, sx_halted, sx_pc, sx_todo, sx_updates, sx_late, sx_cache,
            sx_offer>>
rmVars == <<rm_read, rm_cache, rm_cool, rm_task, rm_count, rm_unwanted>>
hdVars == <<hd_db, hd_active, hd_off, hd_last>>
qdVars == <<qd_pool, qd_built, qd_pc, qd_from, qd_wait>>
lkVars == <<lk_pc, lk_kind, lk_conn, lk_lock, lk_lockq, lk_plock, lk_plockq, lk_pool,
            lk_sem>>
npVars == <<np_rows, np_modal, np_last>>

vars == <<fqVars, plVars, alVars, idVars, sbVars, slVars, stVars, ciVars, sdVars,
          mtVars, spVars, wlVars, apVars, moVars, hkVars, emVars, suVars, duVars,
          srVars, omVars, gsVars, tmVars, skVars, lfVars, sxVars, rmVars, hdVars,
          qdVars, lkVars, npVars>>

\* the variables of the other features
notFq == <<plVars, alVars, idVars, sbVars, slVars, stVars, ciVars, sdVars, mtVars,
           spVars, wlVars, apVars, moVars, hkVars, emVars, suVars, duVars, srVars,
           omVars, gsVars, tmVars, skVars, lfVars, sxVars, rmVars, hdVars, qdVars,
           lkVars, npVars>>
notPl == <<fqVars, alVars, idVars, sbVars, slVars, stVars, ciVars, sdVars, mtVars,
           spVars, wlVars, apVars, moVars, hkVars, emVars, suVars, duVars, srVars,
           omVars, gsVars, tmVars, skVars, lfVars, sxVars, rmVars, hdVars, qdVars,
           lkVars, npVars>>
notAl == <<fqVars, plVars, idVars, sbVars, slVars, stVars, ciVars, sdVars, mtVars,
           spVars, wlVars, apVars, moVars, hkVars, emVars, suVars, duVars, srVars,
           omVars, gsVars, tmVars, skVars, lfVars, sxVars, rmVars, hdVars, qdVars,
           lkVars, npVars>>
notId == <<fqVars, plVars, alVars, sbVars, slVars, stVars, ciVars, sdVars, mtVars,
           spVars, wlVars, apVars, moVars, hkVars, emVars, suVars, duVars, srVars,
           omVars, gsVars, tmVars, skVars, lfVars, sxVars, rmVars, hdVars, qdVars,
           lkVars, npVars>>
notSb == <<fqVars, plVars, alVars, idVars, slVars, stVars, ciVars, sdVars, mtVars,
           spVars, wlVars, apVars, moVars, hkVars, emVars, suVars, duVars, srVars,
           omVars, gsVars, tmVars, skVars, lfVars, sxVars, rmVars, hdVars, qdVars,
           lkVars, npVars>>
notSl == <<fqVars, plVars, alVars, idVars, sbVars, stVars, ciVars, sdVars, mtVars,
           spVars, wlVars, apVars, moVars, hkVars, emVars, suVars, duVars, srVars,
           omVars, gsVars, tmVars, skVars, lfVars, sxVars, rmVars, hdVars, qdVars,
           lkVars, npVars>>
notSt == <<fqVars, plVars, alVars, idVars, sbVars, slVars, ciVars, sdVars, mtVars,
           spVars, wlVars, apVars, moVars, hkVars, emVars, suVars, duVars, srVars,
           omVars, gsVars, tmVars, skVars, lfVars, sxVars, rmVars, hdVars, qdVars,
           lkVars, npVars>>
notPlSd == <<fqVars, alVars, idVars, sbVars, slVars, stVars, ciVars, mtVars, spVars,
             wlVars, apVars, moVars, hkVars, emVars, suVars, duVars, srVars, omVars,
             gsVars, tmVars, skVars, lfVars, sxVars, rmVars, hdVars, qdVars, lkVars,
             npVars>>
notCi == <<fqVars, plVars, alVars, idVars, sbVars, slVars, stVars, sdVars, mtVars,
           spVars, wlVars, apVars, moVars, hkVars, emVars, suVars, duVars, srVars,
           omVars, gsVars, tmVars, skVars, lfVars, sxVars, rmVars, hdVars, qdVars,
           lkVars, npVars>>
notSd == <<fqVars, plVars, alVars, idVars, sbVars, slVars, stVars, ciVars, mtVars,
           spVars, wlVars, apVars, moVars, hkVars, emVars, suVars, duVars, srVars,
           omVars, gsVars, tmVars, skVars, lfVars, sxVars, rmVars, hdVars, qdVars,
           lkVars, npVars>>
notMt == <<fqVars, plVars, alVars, idVars, sbVars, slVars, stVars, ciVars, sdVars,
           spVars, wlVars, apVars, moVars, hkVars, emVars, suVars, duVars, srVars,
           omVars, gsVars, tmVars, skVars, lfVars, sxVars, rmVars, hdVars, qdVars,
           lkVars, npVars>>
notSp == <<fqVars, plVars, alVars, idVars, sbVars, slVars, stVars, ciVars, sdVars,
           mtVars, wlVars, apVars, moVars, hkVars, emVars, suVars, duVars, srVars,
           omVars, gsVars, tmVars, skVars, lfVars, sxVars, rmVars, hdVars, qdVars,
           lkVars, npVars>>
notWl == <<fqVars, plVars, alVars, idVars, sbVars, slVars, stVars, ciVars, sdVars,
           mtVars, spVars, apVars, moVars, hkVars, emVars, suVars, duVars, srVars,
           omVars, gsVars, tmVars, skVars, lfVars, sxVars, rmVars, hdVars, qdVars,
           lkVars, npVars>>
notAp == <<fqVars, plVars, alVars, idVars, sbVars, slVars, stVars, ciVars, sdVars,
           mtVars, spVars, wlVars, moVars, hkVars, emVars, suVars, duVars, srVars,
           omVars, gsVars, tmVars, skVars, lfVars, sxVars, rmVars, hdVars, qdVars,
           lkVars, npVars>>
notMo == <<fqVars, plVars, alVars, idVars, sbVars, slVars, stVars, ciVars, sdVars,
           mtVars, spVars, wlVars, apVars, hkVars, emVars, suVars, duVars, srVars,
           omVars, gsVars, tmVars, skVars, lfVars, sxVars, rmVars, hdVars, qdVars,
           lkVars, npVars>>
notHk == <<fqVars, plVars, alVars, idVars, sbVars, slVars, stVars, ciVars, sdVars,
           mtVars, spVars, wlVars, apVars, moVars, emVars, suVars, duVars, srVars,
           omVars, gsVars, tmVars, skVars, lfVars, sxVars, rmVars, hdVars, qdVars,
           lkVars, npVars>>
notEm == <<fqVars, plVars, alVars, idVars, sbVars, slVars, stVars, ciVars, sdVars,
           mtVars, spVars, wlVars, apVars, moVars, hkVars, suVars, duVars, srVars,
           omVars, gsVars, tmVars, skVars, lfVars, sxVars, rmVars, hdVars, qdVars,
           lkVars, npVars>>
notSu == <<fqVars, plVars, alVars, idVars, sbVars, slVars, stVars, ciVars, sdVars,
           mtVars, spVars, wlVars, apVars, moVars, hkVars, emVars, duVars, srVars,
           omVars, gsVars, tmVars, skVars, lfVars, sxVars, rmVars, hdVars, qdVars,
           lkVars, npVars>>
notDu == <<fqVars, plVars, alVars, idVars, sbVars, slVars, stVars, ciVars, sdVars,
           mtVars, spVars, wlVars, apVars, moVars, hkVars, emVars, suVars, srVars,
           omVars, gsVars, tmVars, skVars, lfVars, sxVars, rmVars, hdVars, qdVars,
           lkVars, npVars>>
notSr == <<fqVars, plVars, alVars, idVars, sbVars, slVars, stVars, ciVars, sdVars,
           mtVars, spVars, wlVars, apVars, moVars, hkVars, emVars, suVars, duVars,
           omVars, gsVars, tmVars, skVars, lfVars, sxVars, rmVars, hdVars, qdVars,
           lkVars, npVars>>
notOm == <<fqVars, plVars, alVars, idVars, sbVars, slVars, stVars, ciVars, sdVars,
           mtVars, spVars, wlVars, apVars, moVars, hkVars, emVars, suVars, duVars,
           srVars, gsVars, tmVars, skVars, lfVars, sxVars, rmVars, hdVars, qdVars,
           lkVars, npVars>>
notGs == <<fqVars, plVars, alVars, idVars, sbVars, slVars, stVars, ciVars, sdVars,
           mtVars, spVars, wlVars, apVars, moVars, hkVars, emVars, suVars, duVars,
           srVars, omVars, tmVars, skVars, lfVars, sxVars, rmVars, hdVars, qdVars,
           lkVars, npVars>>
notTm == <<fqVars, plVars, alVars, idVars, sbVars, slVars, stVars, ciVars, sdVars,
           mtVars, spVars, wlVars, apVars, moVars, hkVars, emVars, suVars, duVars,
           srVars, omVars, gsVars, skVars, lfVars, sxVars, rmVars, hdVars, qdVars,
           lkVars, npVars>>
notSk == <<fqVars, plVars, alVars, idVars, sbVars, slVars, stVars, ciVars, sdVars,
           mtVars, spVars, wlVars, apVars, moVars, hkVars, emVars, suVars, duVars,
           srVars, omVars, gsVars, tmVars, lfVars, sxVars, rmVars, hdVars, qdVars,
           lkVars, npVars>>
notLf == <<fqVars, plVars, alVars, idVars, sbVars, slVars, stVars, ciVars, sdVars,
           mtVars, spVars, wlVars, apVars, moVars, hkVars, emVars, suVars, duVars,
           srVars, omVars, gsVars, tmVars, skVars, sxVars, rmVars, hdVars, qdVars,
           lkVars, npVars>>
notSx == <<fqVars, plVars, alVars, idVars, sbVars, slVars, stVars, ciVars, sdVars,
           mtVars, spVars, wlVars, apVars, moVars, hkVars, emVars, suVars, duVars,
           srVars, omVars, gsVars, tmVars, skVars, lfVars, rmVars, hdVars, qdVars,
           lkVars, npVars>>
notRm == <<fqVars, plVars, alVars, idVars, sbVars, slVars, stVars, ciVars, sdVars,
           mtVars, spVars, wlVars, apVars, moVars, hkVars, emVars, suVars, duVars,
           srVars, omVars, gsVars, tmVars, skVars, lfVars, sxVars, hdVars, qdVars,
           lkVars, npVars>>
notHd == <<fqVars, plVars, alVars, idVars, sbVars, slVars, stVars, ciVars, sdVars,
           mtVars, spVars, wlVars, apVars, moVars, hkVars, emVars, suVars, duVars,
           srVars, omVars, gsVars, tmVars, skVars, lfVars, sxVars, rmVars, qdVars,
           lkVars, npVars>>
notQd == <<fqVars, plVars, alVars, idVars, sbVars, slVars, stVars, ciVars, sdVars,
           mtVars, spVars, wlVars, apVars, moVars, hkVars, emVars, suVars, duVars,
           srVars, omVars, gsVars, tmVars, skVars, lfVars, sxVars, rmVars, hdVars,
           lkVars, npVars>>
notLk == <<fqVars, plVars, alVars, idVars, sbVars, slVars, stVars, ciVars, sdVars,
           mtVars, spVars, wlVars, apVars, moVars, hkVars, emVars, suVars, duVars,
           srVars, omVars, gsVars, tmVars, skVars, lfVars, sxVars, rmVars, hdVars,
           qdVars, npVars>>
notNp == <<fqVars, plVars, alVars, idVars, sbVars, slVars, stVars, ciVars, sdVars,
           mtVars, spVars, wlVars, apVars, moVars, hkVars, emVars, suVars, duVars,
           srVars, omVars, gsVars, tmVars, skVars, lfVars, sxVars, rmVars, hdVars,
           qdVars, lkVars>>

(***************************************************************************)
(* Python's None and an int result: None is <<>>, the int n is <<n>>.      *)
(***************************************************************************)
None == <<>>
Some(n) == <<n>>

RECURSIVE Pow10(_)
Pow10(k) == IF k = 0 THEN 1 ELSE 10 * Pow10(k - 1)

(***************************************************************************)
(* Characters.                                                             *)
(***************************************************************************)
Digits == <<"0", "1", "2", "3", "4", "5", "6", "7", "8", "9">>
LowerLetters == <<"a", "b", "c", "d", "e", "f", "g", "h", "i", "j", "k", "l", "m",
                  "n", "o", "p", "q", "r", "s", "t", "u", "v", "w", "x", "y", "z">>
UpperLetters == <<"A", "B", "C", "D", "E", "F", "G", "H", "I", "J", "K", "L", "M",
                  "N", "O", "P", "Q", "R", "S", "T", "U", "V", "W", "X", "Y", "Z">>

Range(f) == {f[i] : i \in DOMAIN f}
IndexOf(seq, c) == CHOOSE i \in DOMAIN seq : seq[i] = c

IsDigit(c) == c \in Range(Digits)              \* \d
IsAlpha(c) == c \in Range(LowerLetters) \cup Range(UpperLetters)   \* [a-zA-Z]
IsSpace(c) == c = " "                          \* \s
DigitVal(c) == IndexOf(Digits, c) - 1

\* str.lower()
LowerChar(c) == IF c \in Range(UpperLetters) THEN LowerLetters[IndexOf(UpperLetters, c)] ELSE c
Lower(s) == [i \in DOMAIN s |-> LowerChar(s[i])]

\* str.strip()
RECURSIVE LStrip(_)
LStrip(s) == IF s # <<>> /\ IsSpace(Head(s)) THEN LStrip(Tail(s)) ELSE s
RECURSIVE RStrip(_)
RStrip(s) == IF s # <<>> /\ IsSpace(s[Len(s)]) THEN RStrip(SubSeq(s, 1, Len(s) - 1)) ELSE s
Strip(s) == RStrip(LStrip(s))

(***************************************************************************)
(* The unit table of parse_frequency: unit name -> seconds.                *)
(***************************************************************************)
S2C(str) ==
    CASE str = "s" -> <<"s">>
      [] str = "sec" -> <<"s", "e", "c">>
      [] str = "second" -> <<"s", "e", "c", "o", "n", "d">>
      [] str = "seconds" -> <<"s", "e", "c", "o", "n", "d", "s">>
      [] str = "m" -> <<"m">>
      [] str = "min" -> <<"m", "i", "n">>
      [] str = "minute" -> <<"m", "i", "n", "u", "t", "e">>
      [] str = "minutes" -> <<"m", "i", "n", "u", "t", "e", "s">>
      [] str = "hr" -> <<"h", "r">>
      [] str = "hour" -> <<"h", "o", "u", "r">>
      [] str = "hours" -> <<"h", "o", "u", "r", "s">>
      [] str = "d" -> <<"d">>
      [] str = "day" -> <<"d", "a", "y">>
      [] str = "days" -> <<"d", "a", "y", "s">>
      [] str = "w" -> <<"w">>
      [] str = "week" -> <<"w", "e", "e", "k">>
      [] str = "weeks" -> <<"w", "e", "e", "k", "s">>
      [] str = "mon" -> <<"m", "o", "n">>
      [] str = "month" -> <<"m", "o", "n", "t", "h">>
      [] str = "months" -> <<"m", "o", "n", "t", "h", "s">>
      [] str = "y" -> <<"y">>
      [] str = "year" -> <<"y", "e", "a", "r">>
      [] str = "years" -> <<"y", "e", "a", "r", "s">>

units ==
    [n \in {"s", "sec", "second", "seconds"} |-> 1]
    @@ [n \in {"m", "min", "minute", "minutes"} |-> 60]
    @@ [n \in {"hr", "hour", "hours"} |-> 3600]
    @@ [n \in {"d", "day", "days"} |-> 86400]
    @@ [n \in {"w", "week", "weeks"} |-> 604800]
    @@ [n \in {"mon", "month", "months"} |-> 2629746]
    @@ [n \in {"y", "year", "years"} |-> 31556952]

\* `unit in units` and `units[unit]` for a unit given as characters
UnitKnown(u) == \E n \in DOMAIN units : S2C(n) = u
UnitSeconds(u) == units[CHOOSE n \in DOMAIN units : S2C(n) = u]

(***************************************************************************)
(* re.findall(r"(\d+(?:\.\d+)?)\s*([a-zA-Z]+)", s): the leftmost, greedy,    *)
(* non-overlapping matches. Giving back characters never turns a failed    *)
(* attempt into a match here (a shorter \d+ or \s* run is followed by a    *)
(* character the next item cannot take), so one greedy attempt per start   *)
(* position decides.                                                       *)
(***************************************************************************)
RECURSIVE SkipDigits(_, _)
SkipDigits(s, i) == IF i <= Len(s) /\ IsDigit(s[i]) THEN SkipDigits(s, i + 1) ELSE i
RECURSIVE SkipSpaces(_, _)
SkipSpaces(s, i) == IF i <= Len(s) /\ IsSpace(s[i]) THEN SkipSpaces(s, i + 1) ELSE i
RECURSIVE SkipAlpha(_, _)
SkipAlpha(s, i) == IF i <= Len(s) /\ IsAlpha(s[i]) THEN SkipAlpha(s, i + 1) ELSE i

\* the match attempt at position i: [ok, number_str, unit, end]
MatchAt(s, i) ==
    LET d1 == SkipDigits(s, i)
        hasFrac == d1 <= Len(s) /\ s[d1] = "." /\ SkipDigits(s, d1 + 1) > d1 + 1
        d2 == IF hasFrac THEN SkipDigits(s, d1 + 1) ELSE d1
        sp == SkipSpaces(s, d2)
        a  == SkipAlpha(s, sp)
    IN  IF d1 > i /\ a > sp
        THEN [ok |-> TRUE, number_str |-> SubSeq(s, i, d2 - 1),
              unit |-> SubSeq(s, sp, a - 1), end |-> a]
        ELSE [ok |-> FALSE, number_str |-> <<>>, unit |-> <<>>, end |-> i + 1]

RECURSIVE FindAllFrom(_, _)
FindAllFrom(s, i) ==
    IF i > Len(s) THEN <<>>
    ELSE LET m == MatchAt(s, i)
         IN  IF m.ok
             THEN <<[number_str |-> m.number_str, unit |-> m.unit]>> \o FindAllFrom(s, m.end)
             ELSE FindAllFrom(s, i + 1)

findall(s) == FindAllFrom(s, 1)

(***************************************************************************)
(* float(number_str), exactly: the number is DecValue / 10^FracDigits.     *)
(***************************************************************************)
RECURSIVE DecValue(_)
DecValue(ds) ==      \* the digits of ds read as one decimal integer, "." skipped
    IF ds = <<>> THEN 0
    ELSE IF ds[Len(ds)] = "." THEN DecValue(SubSeq(ds, 1, Len(ds) - 1))
    ELSE 10 * DecValue(SubSeq(ds, 1, Len(ds) - 1)) + DigitVal(ds[Len(ds)])

FracDigits(ds) ==
    IF \E i \in DOMAIN ds : ds[i] = "."
    THEN Len(ds) - (CHOOSE i \in DOMAIN ds : ds[i] = ".")
    ELSE 0

Max(S) == CHOOSE x \in S : \A y \in S : y <= x

\* number * 10^k for k >= FracDigits(ds)
Scaled(ds, k) == DecValue(ds) * Pow10(k - FracDigits(ds))

(***************************************************************************)
(* parse_frequency: the loop over the matches adds number * units[unit]    *)
(* and returns None at the first unit that is not in the table; the total  *)
(* is kept in units of 10^-k seconds, k the longest fraction in the input. *)
(***************************************************************************)
RECURSIVE SumMatches(_, _, _)
SumMatches(matches, k, total_seconds) ==
    IF matches = <<>> THEN Some(total_seconds)
    ELSE LET m == Head(matches)
         IN  IF UnitKnown(m.unit)
             THEN SumMatches(Tail(matches), k,
                             total_seconds + Scaled(m.number_str, k) * UnitSeconds(m.unit))
             ELSE None

\* a ReturnTotal that leaves out the `total_seconds > 0` test
ReturnTotalNoSignTest(total_scaled, k) == Some(total_scaled \div Pow10(k))

\* `return int(total_seconds) if total_seconds > 0 else None`, total in 10^-k s
ReturnTotal(total_scaled, k) ==
    IF total_scaled > 0 THEN Some(total_scaled \div Pow10(k)) ELSE None

parse_frequency(frequency_str) ==
    LET s == Strip(Lower(frequency_str))
        matches == findall(s)
        k == Max({0} \cup {FracDigits(matches[i].number_str) : i \in DOMAIN matches})
        total == SumMatches(matches, k, 0)
    IN  IF matches = <<>> THEN None
        ELSE IF total = None THEN None
        ELSE ReturnTotal(total[1], k)

(***************************************************************************)
(* format_frequency.                                                       *)
(***************************************************************************)
RECURSIVE IntToChars(_)
IntToChars(n) ==     \* str(n) for n >= 0
    IF n < 10 THEN <<Digits[n + 1]>>
    ELSE IntToChars(n \div 10) \o <<Digits[(n % 10) + 1]>>

format_units ==
    << <<31556952, "year", "years">>,
       <<2629746, "month", "months">>,
       <<604800, "week", "weeks">>,
       <<86400, "day", "days">>,
       <<3600, "hour", "hours">>,
       <<60, "minute", "minutes">>,
       <<1, "second", "seconds">> >>

\* the loop of format_frequency from unit number i on: the list parts
RECURSIVE FormatParts(_, _)
FormatParts(remaining, i) ==
    IF i > Len(format_units) THEN <<>>
    ELSE LET unit_seconds == format_units[i][1]
         IN  IF remaining >= unit_seconds
             THEN LET count == remaining \div unit_seconds
                      unit_name == IF count = 1 THEN format_units[i][2] ELSE format_units[i][3]
                  IN  <<IntToChars(count) \o <<" ">> \o S2C(unit_name)>>
                      \o FormatParts(remaining % unit_seconds, i + 1)
             ELSE FormatParts(remaining, i + 1)

RECURSIVE JoinComma(_)
JoinComma(parts) ==   \* ", ".join(parts)
    IF Len(parts) = 0 THEN <<>>
    ELSE IF Len(parts) = 1 THEN parts[1]
    ELSE parts[1] \o <<",", " ">> \o JoinComma(Tail(parts))

SecondsOnly(seconds) ==
    IntToChars(seconds) \o <<" ">> \o S2C(IF seconds # 1 THEN "seconds" ELSE "second")

format_frequency(seconds) ==
    IF seconds < 60 THEN SecondsOnly(seconds)
    ELSE LET parts == FormatParts(seconds, 1)
         IN  IF parts = <<>> THEN SecondsOnly(seconds)
             ELSE IF Len(parts) = 1 THEN parts[1]
             ELSE IF Len(parts) = 2 THEN parts[1] \o <<" ", "a", "n", "d", " ">> \o parts[2]
             ELSE JoinComma(SubSeq(parts, 1, Len(parts) - 1))
                  \o <<",", " ", "a", "n", "d", " ">> \o parts[Len(parts)]

(***************************************************************************)
(* The frequency strings the functions are applied to: every string of at  *)
(* most MaxFreqLen characters of FreqAlphabet, and the examples of the     *)
(* documentation.                                                          *)
(***************************************************************************)
MaxFreqLen == 4
FreqAlphabet == {"0", "1", "5", ".", " ", "s", "m", "S"}

Sample_1w2d3hr30m == <<"1", "w", " ", "2", "d", " ", "3", "h", "r", " ", "3", "0", "m">>
Sample_garbage == <<"g", "a", "r", "b", "a", "g", "e">>
Sample_30s == <<"3", "0", "s">>
Sample_2w7d8hr11m == <<"2", "w", " ", "7", "d", " ", "8", "h", "r", " ", "1", "1", "m">>
Sample_4mon == <<"4", "m", "o", "n">>
Sample_2d3hr == <<"2", "d", " ", "3", "h", "r">>
Sample_1p5hr == <<"1", ".", "5", "h", "r">>
Sample_1Hour == <<" ", "1", " ", "H", "o", "u", "r", " ">>
Sample_3h == <<"3", "h">>
Sample_all_units == <<"1", "y", " ", "1", "m", "o", "n", " ", "1", "w", " ", "1", "d", " ", "1", "h", "r", " ", "1", "m", " ", "1", "s">>
Sample_formatted == <<"2", " ", "y", "e", "a", "r", "s", ",", " ", "3", " ", "m", "o", "n", "t", "h", "s", ",", " ", "a", "n", "d", " ", "5", "9", " ", "s", "e", "c", "o", "n", "d", "s">>
Sample_90sec == <<"9", "0", " ", "s", "e", "c">>
Sample_quarter_min == <<"0", ".", "2", "5", " ", "m", "i", "n">>
Sample_7days5 == <<"7", " ", "d", "a", "y", "s", "5">>

FreqSamples == {Sample_1w2d3hr30m, Sample_garbage, Sample_30s, Sample_2w7d8hr11m, Sample_4mon, Sample_2d3hr, Sample_1p5hr, Sample_1Hour, Sample_3h, Sample_all_units, Sample_formatted, Sample_90sec, Sample_quarter_min, Sample_7days5}

RECURSIVE StringsUpTo(_)
StringsUpTo(n) ==
    IF n = 0 THEN {<<>>}
    ELSE LET shorter == StringsUpTo(n - 1)
         IN  shorter \cup {Append(s, c) : s \in {x \in shorter : Len(x) = n - 1}, c \in FreqAlphabet}

FreqInputs == StringsUpTo(MaxFreqLen) \cup FreqSamples

FqIdle ==
    /\ fq_pc = "off"
    /\ fq_input = <<>>
    /\ fq_seconds = None
    /\ fq_text = <<>>
    /\ fq_reparsed = None

FqInit ==
    /\ fq_pc = "input"
    /\ fq_input \in FreqInputs
    /\ fq_seconds = None
    /\ fq_text = <<>>
    /\ fq_reparsed = None

\* frequency_seconds = self.cog.parse_frequency(self.frequency_input.value)
FqParse ==
    /\ fq_pc = "input"
    /\ fq_seconds' = parse_frequency(fq_input)
    /\ fq_pc' = "parsed"
    /\ UNCHANGED <<fq_input, fq_text, fq_reparsed>>
    /\ UNCHANGED notFq

\* self.cog.format_frequency(frequency_seconds), on a value the parser returned
FqFormat ==
    /\ fq_pc = "parsed"
    /\ fq_seconds # None
    /\ fq_text' = format_frequency(fq_seconds[1])
    /\ fq_pc' = "formatted"
    /\ UNCHANGED <<fq_input, fq_seconds, fq_reparsed>>
    /\ UNCHANGED notFq

\* the formatted text given back to parse_frequency
FqReparse ==
    /\ fq_pc = "formatted"
    /\ fq_reparsed' = parse_frequency(fq_text)
    /\ fq_pc' = "reparsed"
    /\ UNCHANGED <<fq_input, fq_seconds, fq_text>>
    /\ UNCHANGED notFq

FqNext == FqParse \/ FqFormat \/ FqReparse

(***************************************************************************)
(* The connection pools. Every cog builds its own pool; the model follows  *)
(* one cog at a time (pl_feature) with PoolSize connections and two tasks  *)
(* more than connections: one exhausts the pool, the second meets the      *)
(* first while it waits. The code's                                        *)
(* sizes are 3 (Alerts), 8 (ScheduledMessages, Notes), 6 (StickyMessages)  *)
(* and 5 (the others); none of the steps below depends on the size.        *)
(*                                                                         *)
(* A step is what a task does between two suspension points: an acquire of *)
(* a free asyncio.Lock, a get from a non-empty asyncio.Queue and an        *)
(* acquire of a semaphore above zero do not suspend.                       *)
(***************************************************************************)
PoolSize == 2
PoolTasks == 1 .. (PoolSize + 2)

\* the cogs whose pool is an asyncio.Queue with get / put and nothing else
QueueFeatures == {"alerts", "haiku", "notes", "welcome"}
\* MemberCountTracker and TempHideCog: a list, _pool_lock and _pool_semaphore
SemFeatures == {"tracker", "temphide"}
PoolFeatures == QueueFeatures \cup SemFeatures \cup {"sticky", "sched"}

InitialConns == [i \in 1 .. PoolSize |-> i]

PlIdle ==
    /\ pl_feature = "off"
    /\ pl_pool = <<>>
    /\ pl_pc = [t \in PoolTasks |-> "off"]
    /\ pl_conn = [t \in PoolTasks |-> 0]
    /\ pl_lock = 0
    /\ pl_lockq = <<>>
    /\ pl_sem = 0
    /\ pl_open = {}
    /\ pl_initialized = FALSE
    /\ pl_closed = FALSE

\* the state after cog_load: every pool but that of ScheduledMessages, which
\* is built by the first get_db_connection, holds its connections
PlInit ==
    /\ pl_feature \in PoolFeatures
    /\ pl_pool = IF pl_feature = "sched" THEN <<>> ELSE InitialConns
    /\ pl_pc = [t \in PoolTasks |-> "idle"]
    /\ pl_conn = [t \in PoolTasks |-> 0]
    /\ pl_lock = 0
    /\ pl_lockq = <<>>
    /\ pl_sem = IF pl_feature \in SemFeatures THEN PoolSize ELSE 0
    /\ pl_open = IF pl_feature = "sched" THEN {} ELSE Range(InitialConns)
    /\ pl_initialized = (pl_feature # "sched")
    /\ pl_closed = FALSE

\* asyncio.Queue.get_nowait on a non-empty queue: the oldest item
QueueGetKeepsItem(q) == [item |-> Head(q), rest |-> q]
QueueGet(q) == [item |-> Head(q), rest |-> Tail(q)]
\* asyncio.Queue.put_nowait
QueuePut(q, conn) == Append(q, conn)
\* list.pop() and list.append()
ListPop(l) == [item |-> l[Len(l)], rest |-> SubSeq(l, 1, Len(l) - 1)]
ListAppend(l, conn) == Append(l, conn)

\* asyncio.Lock.release: the lock passes to the first waiter, if any
LockRelease ==
    IF pl_lockq = <<>>
    THEN pl_lock' = 0 /\ pl_lockq' = pl_lockq
    ELSE pl_lock' = Head(pl_lockq) /\ pl_lockq' = Tail(pl_lockq)
\* asyncio.Lock.acquire without suspension: unlocked and nobody waiting
LockFree == pl_lock = 0 /\ pl_lockq = <<>>

(***************************************************************************)
(* Alerts._acquire_db (and the same context managers of HaikuCog, Notes    *)
(* and WelcomeCog): conn = await pool.get() ... finally: await pool.put(). *)
(***************************************************************************)
QAcquire(t) ==
    /\ pl_feature \in QueueFeatures
    /\ pl_pc[t] = "idle"
    /\ pl_pool # <<>>            \* an empty queue suspends the getter
    /\ LET g == QueueGet(pl_pool)
       IN  /\ pl_pool' = g.rest
           /\ pl_conn' = [pl_conn EXCEPT ![t] = g.item]
    /\ pl_pc' = [pl_pc EXCEPT ![t] = "hold"]
    /\ UNCHANGED <<pl_feature, pl_lock, pl_lockq, pl_sem, pl_open, pl_initialized, pl_closed>>
    /\ UNCHANGED notPl

QRelease(t) ==
    /\ pl_feature \in QueueFeatures
    /\ pl_pc[t] = "hold"
    /\ pl_pool' = QueuePut(pl_pool, pl_conn[t])
    /\ pl_conn' = [pl_conn EXCEPT ![t] = 0]
    /\ pl_pc' = [pl_pc EXCEPT ![t] = "idle"]
    /\ UNCHANGED <<pl_feature, pl_lock, pl_lockq, pl_sem, pl_open, pl_initialized, pl_closed>>
    /\ UNCHANGED notPl

(***************************************************************************)
(* AioSqlitePool of StickyMessages: _acquire, release and close.           *)
(***************************************************************************)
\* _acquire raises on a closed pool (the task gets nothing), else Queue.get
StickyAcquire(t) ==
    /\ pl_feature = "sticky"
    /\ pl_pc[t] = "idle"
    /\ ~pl_closed
    /\ pl_pool # <<>>
    /\ LET g == QueueGet(pl_pool)
       IN  /\ pl_pool' = g.rest
           /\ pl_conn' = [pl_conn EXCEPT ![t] = g.item]
    /\ pl_pc' = [pl_pc EXCEPT ![t] = "hold"]
    /\ UNCHANGED <<pl_feature, pl_lock, pl_lockq, pl_sem, pl_open, pl_initialized, pl_closed>>
    /\ UNCHANGED notPl

\* release: a closed pool closes the connection instead of queueing it
StickyRelease(t) ==
    /\ pl_feature = "sticky"
    /\ pl_pc[t] = "hold"
    /\ IF pl_closed
       THEN /\ pl_open' = pl_open \ {pl_conn[t]}
            /\ pl_pool' = pl_pool
       ELSE /\ pl_pool' = QueuePut(pl_pool, pl_conn[t])
            /\ pl_open' = pl_open
    /\ pl_conn' = [pl_conn EXCEPT ![t] = 0]
    /\ pl_pc' = [pl_pc EXCEPT ![t] = "idle"]
    /\ UNCHANGED <<pl_feature, pl_lock, pl_lockq, pl_sem, pl_initialized, pl_closed>>
    /\ UNCHANGED notPl

\* close: empties the queue and closes every connection of _connections,
\* the checked-out ones too
StickyClose ==
    /\ pl_feature = "sticky"
    /\ ~pl_closed
    /\ pl_closed' = TRUE
    /\ pl_pool' = <<>>
    /\ pl_open' = {}
    /\ UNCHANGED <<pl_feature, pl_pc, pl_conn, pl_lock, pl_lockq, pl_sem, pl_initialized>>
    /\ UNCHANGED notPl

(***************************************************************************)
(* ScheduledMessages.get_db_connection: _init_db_pool, then the context    *)
(* manager _DBConnContext, whose __aenter__ and __aexit__ both take        *)
(* _db_pool_lock.                                                          *)
(***************************************************************************)
\* __aenter__ from the moment the task owns the lock: pop a connection and
\* release the lock, or, the pool empty, keep the lock and loop on sleep(0)
SmEnterWithLock(t) ==
    IF pl_pool # <<>>
    THEN LET g == ListPop(pl_pool)
         IN  /\ pl_pool' = g.rest
             /\ pl_conn' = [pl_conn EXCEPT ![t] = g.item]
             /\ pl_pc' = [pl_pc EXCEPT ![t] = "hold"]
             /\ LockRelease
    ELSE /\ pl_pc' = [pl_pc EXCEPT ![t] = "spin"]
         /\ pl_lock' = t
         /\ UNCHANGED <<pl_pool, pl_conn, pl_lockq>>

\* `async with self._outer._db_pool_lock` of __aenter__, reached by a task
\* that does not own the lock
SmEnter(t) ==
    IF LockFree
    THEN SmEnterWithLock(t)
    ELSE /\ pl_lockq' = Append(pl_lockq, t)
         /\ pl_pc' = [pl_pc EXCEPT ![t] = "enter"]
         /\ UNCHANGED <<pl_pool, pl_conn, pl_lock>>

\* get_db_connection is called: _init_db_pool returns at once when the pool
\* is initialized, else it takes the lock and opens the connections
SmCall(t) ==
    /\ pl_feature = "sched"
    /\ pl_pc[t] = "idle"
    /\ IF pl_initialized
       THEN SmEnter(t)
       ELSE IF LockFree
            THEN /\ pl_lock' = t
                 /\ pl_pc' = [pl_pc EXCEPT ![t] = "init"]
                 /\ UNCHANGED <<pl_pool, pl_conn, pl_lockq>>
            ELSE /\ pl_lockq' = Append(pl_lockq, t)
                 /\ pl_pc' = [pl_pc EXCEPT ![t] = "initwait"]
                 /\ UNCHANGED <<pl_pool, pl_conn, pl_lock>>
    /\ UNCHANGED <<pl_feature, pl_sem, pl_open, pl_initialized, pl_closed>>
    /\ UNCHANGED notPl

\* _init_db_pool, the connections opened: the pool is filled, the lock
\* released, and __aenter__ asks for the lock again
SmInitDone(t) ==
    /\ pl_feature = "sched"
    /\ pl_pc[t] = "init"
    /\ pl_initialized' = TRUE
    /\ pl_open' = Range(InitialConns)
    /\ IF pl_lockq = <<>>
       THEN LET g == ListPop(InitialConns)
            IN  /\ pl_pool' = g.rest
                /\ pl_conn' = [pl_conn EXCEPT ![t] = g.item]
                /\ pl_pc' = [pl_pc EXCEPT ![t] = "hold"]
                /\ pl_lock' = 0
                /\ pl_lockq' = pl_lockq
       ELSE /\ pl_pool' = InitialConns
            /\ pl_lock' = Head(pl_lockq)
            /\ pl_lockq' = Append(Tail(pl_lockq), t)
            /\ pl_pc' = [pl_pc EXCEPT ![t] = "enter"]
            /\ pl_conn' = pl_conn
    /\ UNCHANGED <<pl_feature, pl_sem, pl_closed>>
    /\ UNCHANGED notPl

\* a task that waited for the lock in _init_db_pool gets it, finds the pool
\* initialized, releases the lock and asks for it again in __aenter__
SmInitWaitDone(t) ==
    /\ pl_feature = "sched"
    /\ pl_pc[t] = "initwait"
    /\ pl_lock = t
    /\ pl_initialized
    /\ IF pl_lockq = <<>>
       THEN SmEnterWithLock(t)
       ELSE /\ pl_lock' = Head(pl_lockq)
            /\ pl_lockq' = Append(Tail(pl_lockq), t)
            /\ pl_pc' = [pl_pc EXCEPT ![t] = "enter"]
            /\ UNCHANGED <<pl_pool, pl_conn>>
    /\ UNCHANGED <<pl_feature, pl_sem, pl_open, pl_initialized, pl_closed>>
    /\ UNCHANGED notPl

\* a task that waited for the lock in __aenter__ gets it; a task that has the
\* lock and loops on `while not self._outer._db_pool: await asyncio.sleep(0)`
\* sees a connection
SmEnterLocked(t) ==
    /\ pl_feature = "sched"
    /\ pl_pc[t] \in {"enter", "spin"}
    /\ pl_lock = t
    /\ pl_pc[t] = "spin" => pl_pool # <<>>
    /\ SmEnterWithLock(t)
    /\ UNCHANGED <<pl_feature, pl_sem, pl_open, pl_initialized, pl_closed>>
    /\ UNCHANGED notPl

\* __aexit__: `async with self._outer._db_pool_lock: pool.append(conn)`
SmExit(t) ==
    /\ pl_feature = "sched"
    /\ pl_pc[t] = "hold"
    /\ IF LockFree
       THEN /\ pl_pool' = ListAppend(pl_pool, pl_conn[t])
            /\ pl_conn' = [pl_conn EXCEPT ![t] = 0]
            /\ pl_pc' = [pl_pc EXCEPT ![t] = "idle"]
            /\ UNCHANGED <<pl_lock, pl_lockq>>
       ELSE /\ pl_lockq' = Append(pl_lockq, t)
            /\ pl_pc' = [pl_pc EXCEPT ![t] = "exit"]
            /\ UNCHANGED <<pl_pool, pl_conn, pl_lock>>
    /\ UNCHANGED <<pl_feature, pl_sem, pl_open, pl_initialized, pl_closed>>
    /\ UNCHANGED notPl

\* a task that waited for the lock in __aexit__ gets it
SmExitLocked(t) ==
    /\ pl_feature = "sched"
    /\ pl_pc[t] = "exit"
    /\ pl_lock = t
    /\ pl_pool' = ListAppend(pl_pool, pl_conn[t])
    /\ pl_conn' = [pl_conn EXCEPT ![t] = 0]
    /\ pl_pc' = [pl_pc EXCEPT ![t] = "idle"]
    /\ LockRelease
    /\ UNCHANGED <<pl_feature, pl_sem, pl_open, pl_initialized, pl_closed>>
    /\ UNCHANGED notPl

(***************************************************************************)
(* MemberCountTracker.get_db_connection and TempHideCog.get_db_connection: *)
(* `if not self._db_pool: await self._init_db_pool()`, then the semaphore  *)
(* and list.pop(); _init_db_pool builds a pool whenever the list is empty. *)
(***************************************************************************)
\* `await self._pool_semaphore.acquire(); conn = self._db_pool.pop()` on the
\* pool `pool` with semaphore value `sem` (above zero whenever it is reached)
SemTake(t, pool, sem) ==
    LET g == ListPop(pool)
    IN  /\ pl_pool' = g.rest
        /\ pl_sem' = sem - 1
        /\ pl_conn' = [pl_conn EXCEPT ![t] = g.item]
        /\ pl_pc' = [pl_pc EXCEPT ![t] = "hold"]

SemGet(t) ==
    /\ pl_feature \in SemFeatures
    /\ pl_pc[t] = "idle"
    /\ IF pl_pool # <<>>
       THEN /\ pl_sem > 0
            /\ SemTake(t, pl_pool, pl_sem)
            /\ UNCHANGED <<pl_lock, pl_lockq>>
       ELSE IF LockFree
            THEN /\ pl_lock' = t
                 /\ pl_pc' = [pl_pc EXCEPT ![t] = "creating"]
                 /\ UNCHANGED <<pl_pool, pl_sem, pl_conn, pl_lockq>>
            ELSE /\ pl_lockq' = Append(pl_lockq, t)
                 /\ pl_pc' = [pl_pc EXCEPT ![t] = "initwait"]
                 /\ UNCHANGED <<pl_pool, pl_sem, pl_conn, pl_lock>>
    /\ UNCHANGED <<pl_feature, pl_open, pl_initialized, pl_closed>>
    /\ UNCHANGED notPl

\* _init_db_pool with the lock, after a wait: `if self._db_pool: return`
SemInitLocked(t) ==
    /\ pl_feature \in SemFeatures
    /\ pl_pc[t] = "initwait"
    /\ pl_lock = t
    /\ IF pl_pool # <<>>
       THEN /\ pl_sem > 0
            /\ SemTake(t, pl_pool, pl_sem)
            /\ LockRelease
       ELSE /\ pl_pc' = [pl_pc EXCEPT ![t] = "creating"]
            /\ UNCHANGED <<pl_pool, pl_sem, pl_conn, pl_lock, pl_lockq>>
    /\ UNCHANGED <<pl_feature, pl_open, pl_initialized, pl_closed>>
    /\ UNCHANGED notPl

\* the model stops opening connections beyond MaxOpen (the code has no limit)
MaxOpen == 6

\* the connections _init_db_pool opens: _max_pool_size new ones
NewConns == [i \in 1 .. PoolSize |-> Cardinality(pl_open) + i]

\* _init_db_pool, the connections opened: `self._db_pool = created_conns`,
\* a new semaphore, the lock released; the caller then takes a connection
SemCreated(t) ==
    /\ pl_feature \in SemFeatures
    /\ pl_pc[t] = "creating"
    /\ Cardinality(pl_open) + PoolSize <= MaxOpen
    /\ pl_open' = pl_open \cup Range(NewConns)
    /\ SemTake(t, NewConns, PoolSize)
    /\ LockRelease
    /\ UNCHANGED <<pl_feature, pl_initialized, pl_closed>>
    /\ UNCHANGED notPl

\* finally: self._db_pool.append(conn); self._pool_semaphore.release()
SemRelease(t) ==
    /\ pl_feature \in SemFeatures
    /\ pl_pc[t] = "hold"
    /\ pl_pool' = ListAppend(pl_pool, pl_conn[t])
    /\ pl_sem' = pl_sem + 1
    /\ pl_conn' = [pl_conn EXCEPT ![t] = 0]
    /\ pl_pc' = [pl_pc EXCEPT ![t] = "idle"]
    /\ UNCHANGED <<pl_feature, pl_lock, pl_lockq, pl_open, pl_initialized, pl_closed>>
    /\ UNCHANGED notPl

\* what a task does with the pool
PlTaskStep(t) ==
    \/ QAcquire(t) \/ QRelease(t)
    \/ StickyAcquire(t) \/ StickyRelease(t)
    \/ SmCall(t) \/ SmInitDone(t) \/ SmInitWaitDone(t) \/ SmEnterLocked(t)
    \/ SmExit(t) \/ SmExitLocked(t)
    \/ SemGet(t) \/ SemInitLocked(t) \/ SemCreated(t) \/ SemRelease(t)

PlNext == (\E t \in PoolTasks : PlTaskStep(t)) \/ StickyClose

(***************************************************************************)
(* Claims about parse_frequency and format_frequency.                      *)
(***************************************************************************)
\* the unit table as the documentation states it
C6_UnitTable ==
    [n \in DOMAIN units |->
        CASE n \in {"s", "sec", "second", "seconds"} -> 1
          [] n \in {"m", "min", "minute", "minutes"} -> 60
          [] n \in {"hr", "hour", "hours"} -> 3600
          [] n \in {"d", "day", "days"} -> 86400
          [] n \in {"w", "week", "weeks"} -> 604800
          [] n \in {"mon", "month", "months"} -> 2629746
          [] n \in {"y", "year", "years"} -> 31556952]

C6_InTable(u) == \E n \in DOMAIN C6_UnitTable : S2C(n) = u
C6_Seconds(u) == C6_UnitTable[CHOOSE n \in DOMAIN C6_UnitTable : S2C(n) = u]

\* the sum of number x unit-seconds over the first i pairs, in units of 10^-k s
RECURSIVE C6_Sum(_, _, _)
C6_Sum(pairs, k, i) ==
    IF i = 0 THEN 0
    ELSE C6_Sum(pairs, k, i - 1) + Scaled(pairs[i].number_str, k) * C6_Seconds(pairs[i].unit)

RECURSIVE C7_Sum(_, _)
C7_Sum(pairs, i) ==
    IF i = 0 THEN 0
    ELSE C7_Sum(pairs, i - 1) + DecValue(pairs[i].number_str) * UnitSeconds(pairs[i].unit)

\* C7: for every input s that parse_frequency accepts,
\* format_frequency(parse_frequency(s)) lists its components in the order
\* year, month, week, day, hour, minute, second, lists no component with
\* count zero, and the components' weighted sum, and parse_frequency of the
\* formatted text, equal parse_frequency(s).
C7_RoundTrip ==
    fq_pc = "reparsed" =>
        LET pairs == findall(fq_text)
        IN  /\ pairs # <<>>
            /\ \A i \in DOMAIN pairs : UnitKnown(pairs[i].unit)
            /\ \A i, j \in DOMAIN pairs :
                   i < j => UnitSeconds(pairs[i].unit) > UnitSeconds(pairs[j].unit)
            /\ \A i \in DOMAIN pairs : DecValue(pairs[i].number_str) # 0
            /\ C7_Sum(pairs, Len(pairs)) = fq_seconds[1]
            /\ fq_reparsed = fq_seconds

\* C40: every value parse_frequency returns is a whole number of seconds of
\* at least 1; an input whose total is not at least one second is rejected
\* (None) and never returned as 0.
C40_ReturnsPositiveSeconds ==
    (fq_pc # "input" /\ fq_seconds # None) => fq_seconds[1] >= 1

(***************************************************************************)
(* Claims about the connection pools.                                      *)
(***************************************************************************)
\* C8: in ScheduledMessages a task that asks for a connection while all are
\* checked out waits until a holder returns one, and holders can always
\* return theirs while others wait: no task waits for a connection (holding
\* the pool lock in its sleep(0) loop) while a holder waits for that lock to
\* give its connection back.
C8_WaitersAndReleasersDoNotBlock ==
    pl_feature = "sched" =>
        \A t, u \in PoolTasks : ~(pl_pc[t] = "spin" /\ pl_lock = t /\ pl_pc[u] = "exit")

\* C9: in MemberCountTracker and TempHideCog the number of open pooled
\* connections never exceeds _max_pool_size; with all connections checked
\* out a further caller waits and opens none.
C9_OpenConnectionsBounded ==
    pl_feature \in SemFeatures => Cardinality(pl_open) <= PoolSize

POSITION_CACHE_TTL == 300
REMINDER_COOLDOWN_TTL == 300
pool_size == 3
MaxUsers == 2
MaxAlertTasks == 2
MaxTicks == 2

AlUsers == 1 .. MaxUsers
\* the concurrent handlers: not more than the pool has connections, so that
\* `await self._pool.get()` finds one and does not suspend
AlTasks == 1 .. MaxAlertTasks
\* the clock advances by a second or by a second less than a TTL
ClockSteps(ttl) == {1, ttl - 1}

AlIdle ==
    /\ al_now = 0
    /\ al_ticks = 0
    /\ al_read_count = 0
    /\ al_reads = [u \in AlUsers |-> 0]
    /\ al_cache = [u \in AlUsers |-> None]
    /\ al_cool = [u \in AlUsers |-> 0]
    /\ al_dblock = 0
    /\ al_pool = 0
    /\ al_pc = [t \in AlTasks |-> "off"]
    /\ al_user = [t \in AlTasks |-> 0]
    /\ al_tnow = [t \in AlTasks |-> 0]
    /\ al_position = [t \in AlTasks |-> 0]
    /\ al_wrote = [t \in AlTasks |-> FALSE]
    /\ al_lookup = None

\* after cog_load: the pool is filled, _load_current_alert found the alert
\* and cleared both caches
AlInit ==
    /\ al_now = 0
    /\ al_ticks = 0
    /\ al_read_count = 0
    /\ al_reads = [u \in AlUsers |-> 0]
    /\ al_cache = [u \in AlUsers |-> None]
    /\ al_cool = [u \in AlUsers |-> 0]
    /\ al_dblock = 0
    /\ al_pool = pool_size
    /\ al_pc = [t \in AlTasks |-> "idle"]
    /\ al_user = [t \in AlTasks |-> 0]
    /\ al_tnow = [t \in AlTasks |-> 0]
    /\ al_position = [t \in AlTasks |-> 0]
    /\ al_wrote = [t \in AlTasks |-> FALSE]
    /\ al_lookup = None

AlRunning == \E t \in AlTasks : al_pc[t] # "off"

\* the test of _cleanup_position_cache, _cleanup_reminder_cooldowns and
\* StarboardCog._cache_cleanup: `expiry <= now`
ExpiredStrictlyAfter(expiry, now) == expiry < now
Expired(expiry, now) == expiry <= now

_cleanup_position_cache(cache, now) ==
    [u \in AlUsers |->
        IF cache[u] # None /\ Expired(cache[u][2], now) THEN None ELSE cache[u]]

_cleanup_reminder_cooldowns(cool, now) ==
    [u \in AlUsers |-> IF cool[u] # 0 /\ Expired(cool[u], now) THEN 0 ELSE cool[u]]

\* what a lookup records when the cache held an entry for the key: when the
\* entry was stored, the time of the lookup, whether the entry was served
LookupRecord(entry, stored_at, now, served) ==
    IF entry = None THEN None ELSE <<stored_at, now, served>>

\* a task finished its handler
AlFinish(t) ==
    /\ al_pc' = [al_pc EXCEPT ![t] = "idle"]
    /\ al_user' = [al_user EXCEPT ![t] = 0]
    /\ al_tnow' = [al_tnow EXCEPT ![t] = 0]
    /\ al_position' = [al_position EXCEPT ![t] = 0]
    /\ al_wrote' = [al_wrote EXCEPT ![t] = FALSE]

AlTick(d) ==
    /\ AlRunning
    /\ al_ticks < MaxTicks
    /\ al_now' = al_now + d
    /\ al_ticks' = al_ticks + 1
    /\ UNCHANGED <<al_read_count, al_reads, al_cache, al_cool, al_dblock, al_pool, al_pc,
                   al_user, al_tnow, al_position, al_wrote, al_lookup>>
    /\ UNCHANGED notAl

\* BEGIN IMMEDIATE succeeds when no other connection holds the write lock
WriteLockNotChecked(holder) == TRUE
WriteLockFree(holder) == holder = 0

\* async with self._acquire_db(): conn = await self._pool.get()
AlTakeConn(t, user, now, next) ==
    /\ al_pool > 0
    /\ al_pool' = al_pool - 1
    /\ al_user' = [al_user EXCEPT ![t] = user]
    /\ al_tnow' = [al_tnow EXCEPT ![t] = now]
    /\ al_pc' = [al_pc EXCEPT ![t] = next]

\* /alert up to the first suspension: the cache lookup, answered from the
\* cache or on to the database
AlAlert(t, u) ==
    /\ al_pc[t] = "idle"
    /\ LET now     == al_now
           cleaned == _cleanup_position_cache(al_cache, now)
           cached  == cleaned[u]
       IN  /\ al_cache' = cleaned
           /\ al_lookup' = IF al_cache[u] = None THEN None
                           ELSE LookupRecord(al_cache[u], al_cache[u][3], now, cached # None)
           /\ IF cached # None
              THEN UNCHANGED <<al_pool, al_pc, al_user, al_tnow>>
              ELSE AlTakeConn(t, u, now, "begin")
    /\ UNCHANGED <<al_now, al_ticks, al_read_count, al_reads, al_cool, al_dblock,
                   al_position, al_wrote>>
    /\ UNCHANGED notAl

\* BEGIN IMMEDIATE, SELECT position FROM alert_reads and, when the user has
\* no row, UPDATE alerts SET read_count = read_count + 1, SELECT read_count
\* and INSERT INTO alert_reads: inside the transaction, not yet committed
AlBegin(t) ==
    /\ al_pc[t] = "begin"
    /\ WriteLockFree(al_dblock)
    /\ al_dblock' = t
    /\ LET row == al_reads[al_user[t]]
       IN  /\ al_position' = [al_position EXCEPT ![t] =
                                  IF row # 0 THEN row ELSE al_read_count + 1]
           /\ al_wrote' = [al_wrote EXCEPT ![t] = (row = 0)]
    /\ al_pc' = [al_pc EXCEPT ![t] = "commit"]
    /\ UNCHANGED <<al_now, al_ticks, al_read_count, al_reads, al_cache, al_cool, al_pool,
                   al_user, al_tnow, al_lookup>>
    /\ UNCHANGED notAl

\* BEGIN IMMEDIATE gives up after busy_timeout: ROLLBACK, the connection goes
\* back to the pool and the exception leaves the handler
AlBeginBusy(t) ==
    /\ al_pc[t] = "begin"
    /\ al_dblock \notin {0, t}
    /\ al_pool' = al_pool + 1
    /\ AlFinish(t)
    /\ UNCHANGED <<al_now, al_ticks, al_read_count, al_reads, al_cache, al_cool, al_dblock,
                   al_lookup>>
    /\ UNCHANGED notAl

\* await db.commit()
AlCommit(t) ==
    /\ al_pc[t] = "commit"
    /\ IF al_wrote[t]
       THEN /\ al_read_count' = al_position[t]
            /\ al_reads' = [al_reads EXCEPT ![al_user[t]] = al_position[t]]
       ELSE UNCHANGED <<al_read_count, al_reads>>
    /\ al_dblock' = 0
    /\ al_pc' = [al_pc EXCEPT ![t] = "store"]
    /\ UNCHANGED <<al_now, al_ticks, al_cache, al_cool, al_pool, al_user, al_tnow,
                   al_position, al_wrote, al_lookup>>
    /\ UNCHANGED notAl

\* the connection goes back, the position is cached and the answer is sent
AlStore(t) ==
    /\ al_pc[t] = "store"
    /\ al_pool' = al_pool + 1
    /\ al_cache' = [al_cache EXCEPT ![al_user[t]] =
                       <<al_position[t], al_tnow[t] + POSITION_CACHE_TTL, al_tnow[t]>>]
    /\ AlFinish(t)
    /\ UNCHANGED <<al_now, al_ticks, al_read_count, al_reads, al_cool, al_dblock, al_lookup>>
    /\ UNCHANGED notAl

\* on_interaction up to the first suspension
AlInteraction(t, u) ==
    /\ al_pc[t] = "idle"
    /\ LET now     == al_now
           cool    == _cleanup_reminder_cooldowns(al_cool, now)
           cleaned == _cleanup_position_cache(al_cache, now)
       IN  /\ al_cool' = cool
           /\ IF cool[u] # 0 /\ cool[u] > now
              THEN UNCHANGED <<al_cache, al_lookup, al_pool, al_pc, al_user, al_tnow>>
              ELSE /\ al_cache' = cleaned
                   /\ al_lookup' = IF al_cache[u] = None THEN None
                                   ELSE LookupRecord(al_cache[u], al_cache[u][3], now,
                                                     cleaned[u] # None)
                   /\ IF cleaned[u] # None
                      THEN UNCHANGED <<al_pool, al_pc, al_user, al_tnow>>
                      ELSE AlTakeConn(t, u, now, "l_select")
    /\ UNCHANGED <<al_now, al_ticks, al_read_count, al_reads, al_dblock, al_position,
                   al_wrote>>
    /\ UNCHANGED notAl

\* SELECT 1 FROM alert_reads, a read of the committed rows; the connection
\* goes back; a user who has read gets the cache entry (0, now + TTL),
\* another one the reminder and its cooldown
AlInteractionDone(t) ==
    /\ al_pc[t] = "l_select"
    /\ al_pool' = al_pool + 1
    /\ IF al_reads[al_user[t]] # 0
       THEN /\ al_cache' = [al_cache EXCEPT ![al_user[t]] =
                               <<0, al_tnow[t] + POSITION_CACHE_TTL, al_tnow[t]>>]
            /\ UNCHANGED al_cool
       ELSE /\ al_cool' = [al_cool EXCEPT ![al_user[t]] = al_tnow[t] + REMINDER_COOLDOWN_TTL]
            /\ UNCHANGED al_cache
    /\ AlFinish(t)
    /\ UNCHANGED <<al_now, al_ticks, al_read_count, al_reads, al_dblock, al_lookup>>
    /\ UNCHANGED notAl

AlStep(t) ==
    \/ \E u \in AlUsers : AlAlert(t, u) \/ AlInteraction(t, u)
    \/ AlBegin(t) \/ AlCommit(t) \/ AlStore(t) \/ AlInteractionDone(t)

\* concurrent interactions within one reading of the clock
AlNext == \E t \in AlTasks : AlStep(t) \/ AlBeginBusy(t)

\* one interaction after the other while the clock advances
AlCacheNext ==
    \/ \E d \in ClockSteps(POSITION_CACHE_TTL) : AlTick(d)
    \/ AlStep(1)

(***************************************************************************)
(* Claims about /alert.                                                    *)
(***************************************************************************)
C1_Readers == {u \in AlUsers : al_reads[u] # 0}

\* the rows of alert_reads: the positions of the N readers are 1..N, N is
\* the alert's read_count, and an invocation that has committed has the
\* user's row and its position
C1_Rows ==
    /\ al_read_count = Cardinality(C1_Readers)
    /\ {al_reads[u] : u \in C1_Readers} = 1 .. al_read_count
    /\ \A t \in AlTasks :
           al_pc[t] = "store" =>
               al_position[t] # 0 /\ al_reads[al_user[t]] = al_position[t]

\* a row is assigned once, with the read_count (the number of distinct
\* readers) of that moment as its position
C1_Assignment ==
    \A u \in AlUsers :
        /\ al_reads[u] # 0 => al_reads'[u] = al_reads[u]
        /\ (al_reads[u] = 0 /\ al_reads'[u] # 0) =>
               /\ al_reads'[u] = al_read_count'
               /\ al_read_count' = Cardinality({v \in AlUsers : al_reads'[v] # 0})

\* C1: under any interleaving of concurrent /alert invocations on the current
\* alert, by the same user or by different users, each user ends up with one
\* alert_reads row, the positions of distinct users are exactly 1..N without
\* duplicate or gap, and each position is the alert's read_count (the number
\* of distinct readers) at the moment it is assigned.
C1_ConcurrentFirstReads == []C1_Rows /\ [][C1_Assignment]_vars

\* two invocations of one user in flight, one of them about to commit the
\* user's row, after the other user has read
C1_Witness ==
    \E t, s \in AlTasks :
        /\ t # s
        /\ al_user[t] = al_user[s]
        /\ al_pc[t] = "commit" /\ al_wrote[t]
        /\ al_pc[s] = "begin"
        /\ al_position[t] = MaxUsers

(***************************************************************************)
(* ScheduledMessages.get_next_message_id, called by the setup modal's      *)
(* on_submit, which then inserts the row (guild_id, message_id), the       *)
(* table's primary key.  One guild.                                        *)
(***************************************************************************)
cache_ttl == 1800
MaxCreators == 2
MaxCreations == 4
MaxStoredIds == 2

IdTasks == 1 .. MaxCreators

IdIdle ==
    /\ id_now = 0
    /\ id_ticks = 0
    /\ id_cache = None
    /\ id_rows = {}
    /\ id_calls = 0
    /\ id_pc = [t \in IdTasks |-> "off"]
    /\ id_tnow = [t \in IdTasks |-> 0]
    /\ id_max = [t \in IdTasks |-> 0]
    /\ id_msg = [t \in IdTasks |-> 0]
    /\ id_lookup = None

\* after cog_load: an empty cache, the rows of earlier runs in the table
IdInit ==
    /\ id_now = 0
    /\ id_ticks = 0
    /\ id_cache = None
    /\ id_rows \in SUBSET (1 .. MaxStoredIds)
    /\ id_calls = 0
    /\ id_pc = [t \in IdTasks |-> "idle"]
    /\ id_tnow = [t \in IdTasks |-> 0]
    /\ id_max = [t \in IdTasks |-> 0]
    /\ id_msg = [t \in IdTasks |-> 0]
    /\ id_lookup = None

IdRunning == \E t \in IdTasks : id_pc[t] # "off"

\* `if now - ts < cache_ttl`
MaxIdFreshUpToTtl(ts, now) == now - ts <= cache_ttl
MaxIdFresh(ts, now) == now - ts < cache_ttl

\* SELECT MAX(message_id) ...; `row[0] if row and row[0] is not None else 0`
MaxMessageId(rows) == IF rows = {} THEN 0 ELSE Max(rows)

IdTick(d) ==
    /\ IdRunning
    /\ id_ticks < MaxTicks
    /\ id_now' = id_now + d
    /\ id_ticks' = id_ticks + 1
    /\ UNCHANGED <<id_cache, id_rows, id_calls, id_pc, id_tnow, id_max, id_msg, id_lookup>>
    /\ UNCHANGED notId

\* on_submit with a valid frequency calls get_next_message_id: with a fresh
\* cache entry it returns without suspending, otherwise it goes to the
\* database
IdCall(t) ==
    /\ id_pc[t] = "idle"
    /\ id_calls < MaxCreations
    /\ id_calls' = id_calls + 1
    /\ LET now == id_now
           hit == id_cache # None /\ MaxIdFresh(id_cache[2], now)
       IN  /\ id_lookup' = IF id_cache = None THEN None
                           ELSE LookupRecord(id_cache, id_cache[2], now, hit)
           /\ IF hit
              THEN /\ id_cache' = <<id_cache[1] + 1, now>>
                   /\ id_msg' = [id_msg EXCEPT ![t] = id_cache[1] + 1]
                   /\ id_pc' = [id_pc EXCEPT ![t] = "insert"]
                   /\ UNCHANGED id_tnow
              ELSE /\ id_tnow' = [id_tnow EXCEPT ![t] = now]
                   /\ id_pc' = [id_pc EXCEPT ![t] = "query"]
                   /\ UNCHANGED <<id_cache, id_msg>>
    /\ UNCHANGED <<id_now, id_ticks, id_rows, id_max>>
    /\ UNCHANGED notId

\* SELECT MAX(message_id) FROM scheduled_messages WHERE guild_id = ?
IdQuery(t) ==
    /\ id_pc[t] = "query"
    /\ id_max' = [id_max EXCEPT ![t] = MaxMessageId(id_rows)]
    /\ id_pc' = [id_pc EXCEPT ![t] = "store"]
    /\ UNCHANGED <<id_now, id_ticks, id_cache, id_rows, id_calls, id_tnow, id_msg, id_lookup>>
    /\ UNCHANGED notId

\* next_id = max_id + 1; the cache gets (next_id, now); return next_id
IdStore(t) ==
    /\ id_pc[t] = "store"
    /\ id_cache' = <<id_max[t] + 1, id_tnow[t]>>
    /\ id_msg' = [id_msg EXCEPT ![t] = id_max[t] + 1]
    /\ id_pc' = [id_pc EXCEPT ![t] = "insert"]
    /\ UNCHANGED <<id_now, id_ticks, id_rows, id_calls, id_tnow, id_max, id_lookup>>
    /\ UNCHANGED notId

\* INSERT INTO scheduled_messages and commit; a row with that message_id
\* violates the primary key, the exception leaves on_submit
IdInsert(t) ==
    /\ id_pc[t] = "insert"
    /\ id_rows' = id_rows \cup {id_msg[t]}
    /\ id_pc' = [id_pc EXCEPT ![t] = "idle"]
    /\ id_tnow' = [id_tnow EXCEPT ![t] = 0]
    /\ id_max' = [id_max EXCEPT ![t] = 0]
    /\ id_msg' = [id_msg EXCEPT ![t] = 0]
    /\ UNCHANGED <<id_now, id_ticks, id_cache, id_calls, id_lookup>>
    /\ UNCHANGED notId

\* cleanup_cache: entries with now - ts > cache_ttl are dropped
IdCleanup ==
    /\ IdRunning
    /\ id_cache # None
    /\ id_now - id_cache[2] > cache_ttl
    /\ id_cache' = None
    /\ UNCHANGED <<id_now, id_ticks, id_rows, id_calls, id_pc, id_tnow, id_max, id_msg,
                   id_lookup>>
    /\ UNCHANGED notId

IdStep(t) == IdCall(t) \/ IdQuery(t) \/ IdStore(t) \/ IdInsert(t)

\* concurrent setups within one reading of the clock
IdNext == \E t \in IdTasks : IdStep(t)

\* one setup after the other while the clock advances
IdCacheNext ==
    \/ \E d \in ClockSteps(cache_ttl) : IdTick(d)
    \/ IdCleanup
    \/ IdStep(1)

(***************************************************************************)
(* Claims about get_next_message_id.                                       *)
(***************************************************************************)
\* C2: two scheduled-message creations in one guild never receive the same
\* message_id from get_next_message_id, under any interleaving, also when
\* both find the cache entry missing or expired and both query the database:
\* an id that was returned and is not yet inserted is neither held by a
\* second creation nor the id of a row.
C2_NoDuplicateMessageId ==
    \A t \in IdTasks :
        id_pc[t] = "insert" =>
            /\ id_msg[t] \notin id_rows
            /\ \A u \in IdTasks \ {t} : id_pc[u] = "insert" => id_msg[u] # id_msg[t]

(***************************************************************************)
(* StarboardCog.get_guild_settings, update_guild_setting, the writer loop  *)
(* and _cache_cleanup.  One guild; of the settings, star_threshold.        *)
(***************************************************************************)
_settings_cache_ttl == 300
default_star_threshold == 3
MaxSettingsTasks == 1
MaxQueued == 1

SbTasks == 1 .. MaxSettingsTasks
\* the thresholds /starboard sets
Thresholds == {default_star_threshold, default_star_threshold + 2}

SbIdle ==
    /\ sb_now = 0
    /\ sb_ticks = 0
    /\ sb_cache = None
    /\ sb_row = None
    /\ sb_queue = <<>>
    /\ sb_pc = [t \in SbTasks |-> "off"]
    /\ sb_tnow = [t \in SbTasks |-> 0]
    /\ sb_settings = [t \in SbTasks |-> 0]
    /\ sb_lookup = None

\* after cog_load: an empty cache; the guild has a row or not yet
SbInit ==
    /\ sb_now = 0
    /\ sb_ticks = 0
    /\ sb_cache = None
    /\ sb_row \in {None} \cup {<<v>> : v \in Thresholds}
    /\ sb_queue = <<>>
    /\ sb_pc = [t \in SbTasks |-> "idle"]
    /\ sb_tnow = [t \in SbTasks |-> 0]
    /\ sb_settings = [t \in SbTasks |-> 0]
    /\ sb_lookup = None

SbRunning == \E t \in SbTasks : sb_pc[t] # "off"

\* `if expires_at > now: return settings`
SettingsFreshAtExpiry(expires_at, now) == expires_at >= now
SettingsFresh(expires_at, now) == expires_at > now

SbTick(d) ==
    /\ SbRunning
    /\ sb_ticks < MaxTicks
    /\ sb_now' = sb_now + d
    /\ sb_ticks' = sb_ticks + 1
    /\ UNCHANGED <<sb_cache, sb_row, sb_queue, sb_pc, sb_tnow, sb_settings, sb_lookup>>
    /\ UNCHANGED notSb

\* get_guild_settings up to the first suspension
SbGet(t) ==
    /\ sb_pc[t] = "idle"
    /\ LET now == sb_now
           hit == sb_cache # None /\ SettingsFresh(sb_cache[2], now)
       IN  /\ sb_lookup' = IF sb_cache = None THEN None
                           ELSE LookupRecord(sb_cache, sb_cache[3], now, hit)
           /\ IF hit
              THEN UNCHANGED <<sb_pc, sb_tnow>>
              ELSE /\ sb_pc' = [sb_pc EXCEPT ![t] = "read"]
                   /\ sb_tnow' = [sb_tnow EXCEPT ![t] = now]
    /\ UNCHANGED <<sb_now, sb_ticks, sb_cache, sb_row, sb_queue, sb_settings>>
    /\ UNCHANGED notSb

\* SELECT star_threshold, ... FROM guild_settings on a read connection
SbRead(t) ==
    /\ sb_pc[t] = "read"
    /\ IF sb_row = None
       THEN /\ sb_pc' = [sb_pc EXCEPT ![t] = "insert"]
            /\ UNCHANGED sb_settings
       ELSE /\ sb_pc' = [sb_pc EXCEPT ![t] = "store"]
            /\ sb_settings' = [sb_settings EXCEPT ![t] = sb_row[1]]
    /\ UNCHANGED <<sb_now, sb_ticks, sb_cache, sb_row, sb_queue, sb_tnow, sb_lookup>>
    /\ UNCHANGED notSb

\* INSERT INTO guild_settings (guild_id) and commit: the default row; a row
\* inserted meanwhile violates the primary key and the exception leaves
\* get_guild_settings
SbInsert(t) ==
    /\ sb_pc[t] = "insert"
    /\ IF sb_row = None
       THEN /\ sb_row' = <<default_star_threshold>>
            /\ sb_settings' = [sb_settings EXCEPT ![t] = default_star_threshold]
            /\ sb_pc' = [sb_pc EXCEPT ![t] = "store"]
            /\ UNCHANGED sb_tnow
       ELSE /\ sb_pc' = [sb_pc EXCEPT ![t] = "idle"]
            /\ sb_tnow' = [sb_tnow EXCEPT ![t] = 0]
            /\ UNCHANGED <<sb_row, sb_settings>>
    /\ UNCHANGED <<sb_now, sb_ticks, sb_cache, sb_queue, sb_lookup>>
    /\ UNCHANGED notSb

\* self._settings_cache[guild_id] = (settings, now + ttl); return settings
SbStore(t) ==
    /\ sb_pc[t] = "store"
    /\ sb_cache' = <<sb_settings[t], sb_tnow[t] + _settings_cache_ttl, sb_tnow[t]>>
    /\ sb_pc' = [sb_pc EXCEPT ![t] = "idle"]
    /\ sb_tnow' = [sb_tnow EXCEPT ![t] = 0]
    /\ sb_settings' = [sb_settings EXCEPT ![t] = 0]
    /\ UNCHANGED <<sb_now, sb_ticks, sb_row, sb_queue, sb_lookup>>
    /\ UNCHANGED notSb

\* update_guild_setting(star_threshold = v): a cached entry is updated and
\* stored anew with time.time() + ttl; the write is queued
SbUpdate(v) ==
    /\ SbRunning
    /\ Len(sb_queue) < MaxQueued
    /\ sb_cache' = IF sb_cache = None THEN None
                   ELSE <<v, sb_now + _settings_cache_ttl, sb_now>>
    /\ sb_queue' = Append(sb_queue, v)
    /\ UNCHANGED <<sb_now, sb_ticks, sb_row, sb_pc, sb_tnow, sb_settings, sb_lookup>>
    /\ UNCHANGED notSb

\* _writer_loop: UPDATE guild_settings SET star_threshold = ? and commit
SbWriter ==
    /\ sb_queue # <<>>
    /\ sb_row' = IF sb_row = None THEN None ELSE <<Head(sb_queue)>>
    /\ sb_queue' = Tail(sb_queue)
    /\ UNCHANGED <<sb_now, sb_ticks, sb_cache, sb_pc, sb_tnow, sb_settings, sb_lookup>>
    /\ UNCHANGED notSb

\* _cache_cleanup: entries with exp <= now are dropped
SbCacheCleanup ==
    /\ SbRunning
    /\ sb_cache # None
    /\ Expired(sb_cache[2], sb_now)
    /\ sb_cache' = None
    /\ UNCHANGED <<sb_now, sb_ticks, sb_row, sb_queue, sb_pc, sb_tnow, sb_settings, sb_lookup>>
    /\ UNCHANGED notSb

SbStep(t) == SbGet(t) \/ SbRead(t) \/ SbInsert(t) \/ SbStore(t)

\* one lookup after the other while the clock advances
SbCacheNext ==
    \/ \E d \in ClockSteps(_settings_cache_ttl) : SbTick(d)
    \/ \E v \in Thresholds : SbUpdate(v)
    \/ SbWriter
    \/ SbCacheCleanup
    \/ SbStep(1)

(***************************************************************************)
(* Claims about the TTL caches.                                            *)
(***************************************************************************)
\* a lookup that found an entry stored at T served it exactly when its time
\* is before T + ttl
C5_ServedBefore(lookup, ttl) ==
    lookup # None => (lookup[3] <=> lookup[2] < lookup[1] + ttl)

\* C5: in the alert position cache, the starboard guild-settings cache and
\* the scheduled-message max-id cache, an entry stored at time T with TTL t
\* is served from the cache by every lookup at a time strictly before T + t
\* and is not served (the database is consulted) by every lookup at T + t or
\* later.
C5_TtlCaches ==
    /\ C5_ServedBefore(al_lookup, POSITION_CACHE_TTL)
    /\ C5_ServedBefore(sb_lookup, _settings_cache_ttl)
    /\ C5_ServedBefore(id_lookup, cache_ttl)

\* a lookup of the position cache at exactly T + t went to the database
C5_Witness ==
    /\ al_lookup # None
    /\ al_lookup[2] = al_lookup[1] + POSITION_CACHE_TTL
    /\ ~al_lookup[3]
    /\ \E t \in AlTasks : al_pc[t] = "begin"

\* the same for the other two caches, and lookups a second before T + t
C5_WitnessSettings ==
    sb_lookup # None /\ sb_lookup[2] = sb_lookup[1] + _settings_cache_ttl /\ ~sb_lookup[3]
C5_WitnessMaxId ==
    id_lookup # None /\ id_lookup[2] = id_lookup[1] + cache_ttl /\ ~id_lookup[3]
C5_WitnessServed ==
    \/ al_lookup # None /\ al_lookup[2] = al_lookup[1] + POSITION_CACHE_TTL - 1 /\ al_lookup[3]
    \/ sb_lookup # None /\ sb_lookup[2] = sb_lookup[1] + _settings_cache_ttl - 1 /\ sb_lookup[3]
    \/ id_lookup # None /\ id_lookup[2] = id_lookup[1] + cache_ttl - 1 /\ id_lookup[3]

(***************************************************************************)
(* ScheduledMessages.send_scheduled_messages, the loop that runs every 60  *)
(* seconds, and the setup that creates an active message with              *)
(* next_send_time = creation time + frequency.  One guild.                 *)
(***************************************************************************)
loop_seconds == 60
min_frequency == 60
ClockStep == 30
MaxTime == 240
MaxScheduled == 2

SlMessages == 1 .. MaxScheduled
\* the frequencies a setup accepts here: the minimum and one and a half of it
SlFrequencies == {min_frequency, min_frequency + min_frequency \div 2}

SlIdle ==
    /\ sl_now = 0
    /\ sl_rows = [m \in SlMessages |-> None]
    /\ sl_sent = [m \in SlMessages |-> 0]
    /\ sl_pc = "off"
    /\ sl_due = 0
    /\ sl_current = 0
    /\ sl_todo = <<>>
    /\ sl_updates = <<>>
    /\ sl_denied = {}

\* after cog_load: the table is empty and the loop is started
SlInit ==
    /\ sl_now = 0
    /\ sl_rows = [m \in SlMessages |-> None]
    /\ sl_sent = [m \in SlMessages |-> 0]
    /\ sl_pc = "wait"
    /\ sl_due = 0
    /\ sl_current = 0
    /\ sl_todo = <<>>
    /\ sl_updates = <<>>
    /\ sl_denied = {}

\* time passes; an iteration that is due starts before the clock moves on
SlTick ==
    /\ sl_pc # "off"
    /\ ~(sl_pc = "wait" /\ sl_now >= sl_due)
    /\ sl_now + ClockStep <= MaxTime
    /\ sl_now' = sl_now + ClockStep
    /\ UNCHANGED <<sl_rows, sl_sent, sl_pc, sl_due, sl_current, sl_todo, sl_updates,
                   sl_denied>>
    /\ UNCHANGED notSl

\* on_submit with a frequency of at least 60 seconds: the row is inserted
\* with next_send_time = current_time + frequency_seconds, is_active = 1
SlCreate(m, f) ==
    /\ sl_pc # "off"
    /\ sl_rows[m] = None
    /\ f >= min_frequency
    /\ sl_rows' = [sl_rows EXCEPT ![m] =
                      [frequency_seconds |-> f, next_send_time |-> sl_now + f,
                       started_at |-> sl_now]]
    /\ UNCHANGED <<sl_now, sl_sent, sl_pc, sl_due, sl_current, sl_todo, sl_updates,
                   sl_denied>>
    /\ UNCHANGED notSl

\* SELECT ... WHERE next_send_time <= ? AND is_active = 1, in message order
RECURSIVE DueMessages(_, _, _)
DueMessages(rows, current_time, m) ==
    IF m > MaxScheduled THEN <<>>
    ELSE IF rows[m] # None /\ rows[m].next_send_time <= current_time
         THEN <<[message_id |-> m, frequency_seconds |-> rows[m].frequency_seconds]>>
              \o DueMessages(rows, current_time, m + 1)
         ELSE DueMessages(rows, current_time, m + 1)

\* the loop body up to the first send: current_time and the SELECT
SlLoopStart ==
    /\ sl_pc = "wait"
    /\ sl_now >= sl_due
    /\ sl_due' = sl_due + loop_seconds
    /\ sl_current' = sl_now
    /\ sl_todo' = DueMessages(sl_rows, sl_now, 1)
    /\ sl_updates' = <<>>
    /\ sl_pc' = IF sl_todo' = <<>> THEN "wait" ELSE "send"
    /\ UNCHANGED <<sl_now, sl_rows, sl_sent, sl_denied>>
    /\ UNCHANGED notSl

\* the next_send_time the loop computes after a send
NextSendTime(previous, current_time, frequency_seconds) == current_time + frequency_seconds

\* the handler that catches an exception of channel.send: every exception,
\* discord.Forbidden included, is printed and the loop continues; the row
\* is not changed
SendOutcomes == {"sent", "skipped", "failed", "forbidden"}

\* one message of messages_to_send: "sent", or the guild or the channel is
\* not found ("skipped"), or channel.send raises discord.Forbidden
\* ("forbidden") or another exception ("failed")
SlSend(outcome) ==
    /\ sl_pc = "send"
    /\ LET msg == Head(sl_todo)
           m   == msg.message_id
       IN  /\ IF outcome = "sent"
              THEN /\ sl_sent' = [sl_sent EXCEPT ![m] = @ + 1]
                   /\ sl_updates' = Append(sl_updates,
                          <<NextSendTime(sl_rows[m].next_send_time, sl_current,
                                         msg.frequency_seconds), m>>)
              ELSE UNCHANGED <<sl_sent, sl_updates>>
           /\ sl_denied' = IF outcome = "forbidden" THEN sl_denied \cup {m} ELSE sl_denied
           /\ sl_todo' = Tail(sl_todo)
           /\ sl_pc' = IF sl_todo' # <<>> THEN "send"
                       ELSE IF sl_updates' # <<>> THEN "update" ELSE "wait"
    /\ UNCHANGED <<sl_now, sl_rows, sl_due, sl_current>>
    /\ UNCHANGED notSl

\* executemany UPDATE scheduled_messages SET next_send_time = ?, commit
RECURSIVE ApplyUpdates(_, _)
ApplyUpdates(rows, updates) ==
    IF updates = <<>> THEN rows
    ELSE ApplyUpdates([rows EXCEPT ![Head(updates)[2]].next_send_time = Head(updates)[1]],
                      Tail(updates))

SlUpdate ==
    /\ sl_pc = "update"
    /\ sl_rows' = ApplyUpdates(sl_rows, sl_updates)
    /\ sl_updates' = <<>>
    /\ sl_pc' = "wait"
    /\ UNCHANGED <<sl_now, sl_sent, sl_due, sl_current, sl_todo, sl_denied>>
    /\ UNCHANGED notSl

SlNext ==
    \/ SlTick
    \/ \E m \in SlMessages, f \in SlFrequencies : SlCreate(m, f)
    \/ SlLoopStart
    \/ \E outcome \in SendOutcomes : SlSend(outcome)
    \/ SlUpdate

(***************************************************************************)
(* Claims about the send loop.                                             *)
(***************************************************************************)
\* C3: an active message with frequency f is sent once when time has passed
\* its next_send_time, and next_send_time advances by exactly f from its
\* previous value: between iterations, after k sends next_send_time is
\* creation time + (k + 1) * f, whatever the loop's polling delay.
C3_NoDrift ==
    sl_pc = "wait" =>
        \A m \in SlMessages :
            sl_rows[m] # None =>
                sl_rows[m].next_send_time =
                    sl_rows[m].started_at + (sl_sent[m] + 1) * sl_rows[m].frequency_seconds

\* C20: when sending a scheduled message fails with permission-denied, the
\* failure is caught locally and the message is marked inactive or removed
\* rather than retried: the following loop iterations do not attempt it
\* again.
C20_DeniedIsNotRetried ==
    \A i \in 1 .. Len(sl_todo) : sl_todo[i].message_id \notin sl_denied

(***************************************************************************)
(* Pool initialisation: every cog opens its connections one after the      *)
(* other (Notes opens them with asyncio.gather, each by the same           *)
(* _create_one_connection); aiosqlite.connect and the PRAGMAs that follow  *)
(* it succeed or raise as SQLite decides.  Delays are in milliseconds.     *)
(***************************************************************************)
max_retries == 5
backoff_base_ms == 100

\* Alerts, HaikuDetector, Notes, Starboard, MemberCountTracker,
\* ScheduledMessages: `for attempt in range(max_retries)` with try / except
RangeLoopFeatures == {"alerts", "haiku", "notes", "starboard", "tracker", "sched"}
\* TempHideCog: `while True` with attempt += 1 in the except branch
WhileLoopFeatures == {"temphide"}
\* AioSqlitePool.init and WelcomeCog.init_pools: a bare aiosqlite.connect
BareFeatures == {"sticky", "welcome"}
InitFeatures == RangeLoopFeatures \cup WhileLoopFeatures \cup BareFeatures

RECURSIVE Pow2(_)
Pow2(n) == IF n = 0 THEN 1 ELSE 2 * Pow2(n - 1)

\* except Exception: if attempt < max_retries - 1: sleep(0.1 * (2 ** attempt));
\* continue; else raise -- attempt is the index of the failed attempt
RangeLoopExcept(attempt) ==
    IF attempt < max_retries - 1 THEN Some(backoff_base_ms * Pow2(attempt)) ELSE None

\* except Exception: attempt += 1; if attempt < max_retries:
\* sleep(0.1 * (2 ** (attempt - 1))); continue; raise -- attempt before the += 1
WhileLoopExcept(attempt) ==
    IF attempt + 1 < max_retries THEN Some(backoff_base_ms * Pow2((attempt + 1) - 1)) ELSE None

\* what a cog does when the connect after `failed` failed attempts raises:
\* Some(delay) to sleep and try again, None when the exception propagates
OnConnectError(feature, failed) ==
    CASE feature \in RangeLoopFeatures -> RangeLoopExcept(failed)
      [] feature \in WhileLoopFeatures -> WhileLoopExcept(failed)
      [] OTHER -> None

CiIdle ==
    /\ ci_feature = "off"
    /\ ci_pc = "off"
    /\ ci_conns = 0
    /\ ci_attempts = 0
    /\ ci_waits = <<>>

\* the pool's initialisation is entered with no connection yet
CiInit ==
    /\ ci_feature \in InitFeatures
    /\ ci_pc = "connect"
    /\ ci_conns = 0
    /\ ci_attempts = 0
    /\ ci_waits = <<>>

\* conn = await aiosqlite.connect(...) and its PRAGMAs
CiConnect(ok) ==
    /\ ci_pc = "connect"
    /\ ci_attempts' = ci_attempts + 1
    /\ IF ok
       THEN /\ ci_pc' = "opened"
            /\ ci_conns' = ci_conns + 1
            /\ UNCHANGED ci_waits
       ELSE LET retry == OnConnectError(ci_feature, ci_attempts)
            IN  /\ ci_pc' = IF retry = None THEN "raised" ELSE "sleep"
                /\ ci_waits' = IF retry = None THEN ci_waits ELSE Append(ci_waits, retry[1])
                /\ UNCHANGED ci_conns
    /\ UNCHANGED ci_feature
    /\ UNCHANGED notCi

\* asyncio.sleep returns; continue
CiWake ==
    /\ ci_pc = "sleep"
    /\ ci_pc' = "connect"
    /\ UNCHANGED <<ci_feature, ci_conns, ci_attempts, ci_waits>>
    /\ UNCHANGED notCi

\* the connection joins the pool; the outer loop opens the next one or ends
CiPut ==
    /\ ci_pc = "opened"
    /\ IF ci_conns = PoolSize
       THEN /\ ci_pc' = "ready"
            /\ UNCHANGED <<ci_attempts, ci_waits>>
       ELSE /\ ci_pc' = "connect"
            /\ ci_attempts' = 0
            /\ ci_waits' = <<>>
    /\ UNCHANGED <<ci_feature, ci_conns>>
    /\ UNCHANGED notCi

CiNext == (\E ok \in BOOLEAN : CiConnect(ok)) \/ CiWake \/ CiPut

(***************************************************************************)
(* Claims about pool initialisation.                                       *)
(***************************************************************************)
C11_Delays == <<100, 200, 400, 800>>

\* the attempts for the current connection that failed
C11_Failed == IF ci_pc \in {"opened", "ready"} THEN ci_attempts - 1 ELSE ci_attempts

C11_Attempts ==
    ci_pc # "off" =>
        /\ ci_attempts <= 5
        /\ ci_pc = "raised" => ci_attempts = 5
        /\ ci_waits = SubSeq(C11_Delays, 1, IF ci_pc = "raised" THEN 4 ELSE C11_Failed)

C11_StopsOnSuccess ==
    ci_pc = "opened" => ci_conns' = ci_conns /\ (ci_pc' = "ready" \/ ci_attempts' = 0)

\* C11: in every cog's pool initialisation a failed connect is retried, with
\* at most 5 attempts for one connection, sleeps of 0.1, 0.2, 0.4 and 0.8 s
\* between them, no attempt after a success, and the error propagating only
\* after the 5th failure.
C11_RetriesInEveryFeature == []C11_Attempts /\ [][C11_StopsOnSuccess]_vars

(***************************************************************************)
(* Shutting a pool down while the tasks of PoolTasks use it: cog_unload of *)
(* Alerts (HaikuDetector and Notes have the same loop), cog_unload of      *)
(* ScheduledMessages, and AioSqlitePool.close, which cog_unload of         *)
(* StickyMessages awaits.  `await conn.close()` suspends, so every pass of *)
(* a loop is a step of its own.                                            *)
(***************************************************************************)
QueueUnloadFeatures == {"alerts", "haiku", "notes"}
UnloadFeatures == QueueUnloadFeatures \cup {"sched", "sticky"}

\* the task that runs the shutdown, as the pool lock knows it
Unloader == PoolSize + 3

SdIdle ==
    /\ sd_pc = "off"
    /\ sd_i = 0

SdInit ==
    /\ sd_pc = "idle"
    /\ sd_i = 0

\* the pool of a cog that has a shutdown, in use
SdPoolInit == PlInit /\ pl_feature \in UnloadFeatures

\* the cog is unloaded: up to the first suspension
SdUnload ==
    /\ sd_pc = "idle"
    /\ pl_feature \in UnloadFeatures
    /\ sd_i' = 0
    /\ CASE pl_feature \in QueueUnloadFeatures ->
                \* if self._pool is not None: while not self._pool.empty(): ...
                /\ sd_pc' = "loop"
                /\ UNCHANGED <<pl_pool, pl_lock, pl_lockq, pl_closed>>
         [] pl_feature = "sched" ->
                \* async with self._db_pool_lock:
                /\ IF LockFree
                   THEN /\ pl_lock' = Unloader
                        /\ sd_pc' = "loop"
                        /\ UNCHANGED pl_lockq
                   ELSE /\ pl_lockq' = Append(pl_lockq, Unloader)
                        /\ sd_pc' = "lock"
                        /\ UNCHANGED pl_lock
                /\ UNCHANGED <<pl_pool, pl_closed>>
         [] pl_feature = "sticky" ->
                \* self._closed = True; while not empty: get_nowait()
                /\ pl_closed' = TRUE
                /\ pl_pool' = <<>>
                /\ sd_pc' = "loop"
                /\ UNCHANGED <<pl_lock, pl_lockq>>
    /\ UNCHANGED <<pl_feature, pl_pc, pl_conn, pl_sem, pl_open, pl_initialized>>
    /\ UNCHANGED notPlSd

\* ScheduledMessages.cog_unload is given the lock it waited for
SdLockGranted ==
    /\ sd_pc = "lock"
    /\ pl_lock = Unloader
    /\ sd_pc' = "loop"
    /\ UNCHANGED sd_i
    /\ UNCHANGED plVars
    /\ UNCHANGED notPlSd

\* one pass of the closing loop, or its end
SdLoop ==
    /\ sd_pc = "loop"
    /\ CASE pl_feature \in QueueUnloadFeatures ->
                \* while not pool.empty(): conn = await pool.get(); await conn.close()
                \* then self._pool = None
                /\ IF pl_pool = <<>>
                   THEN /\ sd_pc' = "done"
                        /\ UNCHANGED <<pl_pool, pl_open>>
                   ELSE LET g == QueueGet(pl_pool)
                        IN  /\ pl_pool' = g.rest
                            /\ pl_open' = pl_open \ {g.item}
                            /\ sd_pc' = "loop"
                /\ sd_i' = sd_i
                /\ UNCHANGED <<pl_lock, pl_lockq>>
         [] pl_feature = "sched" ->
                \* for conn in self._db_pool: await conn.close()
                \* then self._db_pool.clear() and the lock is released
                /\ IF sd_i < Len(pl_pool)
                   THEN /\ pl_open' = pl_open \ {pl_pool[sd_i + 1]}
                        /\ sd_i' = sd_i + 1
                        /\ sd_pc' = "loop"
                        /\ UNCHANGED <<pl_pool, pl_lock, pl_lockq>>
                   ELSE /\ pl_pool' = <<>>
                        /\ LockRelease
                        /\ sd_pc' = "done"
                        /\ UNCHANGED <<pl_open, sd_i>>
         [] pl_feature = "sticky" ->
                \* while self._connections: conn = pop(); await conn.close()
                /\ IF sd_i < PoolSize
                   THEN /\ pl_open' = pl_open \ {InitialConns[PoolSize - sd_i]}
                        /\ sd_i' = sd_i + 1
                        /\ sd_pc' = "loop"
                   ELSE /\ sd_pc' = "done"
                        /\ UNCHANGED <<pl_open, sd_i>>
                /\ UNCHANGED <<pl_pool, pl_lock, pl_lockq>>
    /\ UNCHANGED <<pl_feature, pl_pc, pl_conn, pl_sem, pl_initialized, pl_closed>>
    /\ UNCHANGED notPlSd

SdNext == SdUnload \/ SdLockGranted \/ SdLoop

\* the tasks go on using the pool until the cog is unloaded
SdTaskStep(t) == sd_pc # "done" /\ PlTaskStep(t)

\* a task that is past its acquire call goes on when it can; nobody has to
\* ask for a connection
SdTaskProgress(t) ==
    /\ sd_pc # "done"
    /\ \/ QRelease(t) \/ StickyRelease(t)
       \/ SmInitDone(t) \/ SmInitWaitDone(t) \/ SmEnterLocked(t) \/ SmExit(t) \/ SmExitLocked(t)

ShutdownNext == (\E t \in PoolTasks : SdTaskStep(t)) \/ SdNext

SdFairness ==
    /\ WF_vars(SdNext)
    /\ \A t \in PoolTasks : WF_vars(SdTaskProgress(t))

(***************************************************************************)
(* Claims about shutdown.                                                  *)
(***************************************************************************)
\* C12: a shutdown that has begun (cog_unload of Alerts or ScheduledMessages,
\* AioSqlitePool.close) returns, whatever the other tasks hold or wait for.
C12_UnloadTerminates == (sd_pc \in {"lock", "loop"}) ~> (sd_pc = "done")

(***************************************************************************)
(* MemberCountTracker: /membertracker enable, disable, reset, the edit     *)
(* modal's member goal, and member_count_monitor.  A command's database    *)
(* write and its cache update follow each other without a suspension; the  *)
(* monitor suspends in its per-guild SELECT and before its final write.    *)
(* The column last_member_count is written but read only by cog_load, and  *)
(* is left out.                                                            *)
(***************************************************************************)
MaxGuilds == 2
MaxMembers == 2

MtGuilds == 1 .. MaxGuilds
MtGoals == 1 .. MaxMembers

MtIdle ==
    /\ mt_row = [g \in MtGuilds |-> "none"]
    /\ mt_goal = [g \in MtGuilds |-> 0]
    /\ mt_cache = [g \in MtGuilds |-> None]
    /\ mt_members = [g \in MtGuilds |-> 1]
    /\ mt_pc = "off"
    /\ mt_todo = <<>>
    /\ mt_updates = <<>>
    /\ mt_deact = <<>>
    /\ mt_fresh = FALSE
    /\ mt_settled = FALSE

\* after cog_load with an empty member_tracker table
MtInit ==
    /\ mt_row = [g \in MtGuilds |-> "none"]
    /\ mt_goal = [g \in MtGuilds |-> 0]
    /\ mt_cache = [g \in MtGuilds |-> None]
    /\ mt_members = [g \in MtGuilds |-> 1]
    /\ mt_pc = "idle"
    /\ mt_todo = <<>>
    /\ mt_updates = <<>>
    /\ mt_deact = <<>>
    /\ mt_fresh = FALSE
    /\ mt_settled = FALSE

MtCommand ==
    /\ mt_pc # "off"
    /\ mt_fresh' = FALSE
    /\ mt_settled' = FALSE

\* enable_member_tracker: INSERT OR REPLACE ... is_active 1 (member_goal
\* NULL), then _active_guild_counts[guild] = guild.member_count
MtEnable(g) ==
    /\ MtCommand
    /\ mt_row' = [mt_row EXCEPT ![g] = "active"]
    /\ mt_goal' = [mt_goal EXCEPT ![g] = 0]
    /\ mt_cache' = [mt_cache EXCEPT ![g] = Some(mt_members[g])]
    /\ UNCHANGED <<mt_members, mt_pc, mt_todo, mt_updates, mt_deact>>
    /\ UNCHANGED notMt

\* disable_member_tracker: DELETE FROM member_tracker WHERE guild_id = ?
MtDisable(g) ==
    /\ MtCommand
    /\ mt_row' = [mt_row EXCEPT ![g] = "none"]
    /\ mt_goal' = [mt_goal EXCEPT ![g] = 0]
    /\ UNCHANGED <<mt_cache, mt_members, mt_pc, mt_todo, mt_updates, mt_deact>>
    /\ UNCHANGED notMt

\* reset_member_tracker: DELETE in every table with a guild_id column, then
\* _active_guild_counts.pop(guild, None)
MtReset(g) ==
    /\ MtCommand
    /\ mt_row' = [mt_row EXCEPT ![g] = "none"]
    /\ mt_goal' = [mt_goal EXCEPT ![g] = 0]
    /\ mt_cache' = [mt_cache EXCEPT ![g] = None]
    /\ UNCHANGED <<mt_members, mt_pc, mt_todo, mt_updates, mt_deact>>
    /\ UNCHANGED notMt

\* MemberTrackerEditModal.on_submit with a member goal: refused unless the
\* row is active, else UPDATE member_tracker SET member_goal = ?
MtSetGoal(g, goal_val) ==
    /\ MtCommand
    /\ mt_row[g] = "active"
    /\ goal_val > 0
    /\ mt_goal' = [mt_goal EXCEPT ![g] = goal_val]
    /\ UNCHANGED <<mt_row, mt_cache, mt_members, mt_pc, mt_todo, mt_updates, mt_deact>>
    /\ UNCHANGED notMt

\* a member joins the guild
MtJoin(g) ==
    /\ mt_pc # "off"
    /\ mt_members[g] < MaxMembers
    /\ mt_members' = [mt_members EXCEPT ![g] = @ + 1]
    /\ UNCHANGED <<mt_row, mt_goal, mt_cache, mt_pc, mt_todo, mt_updates, mt_deact,
                   mt_fresh, mt_settled>>
    /\ UNCHANGED notMt

\* list(self._active_guild_counts.items()) from guild g on
RECURSIVE CacheSnapshot(_, _)
CacheSnapshot(cache, g) ==
    IF g > MaxGuilds THEN <<>>
    ELSE (IF cache[g] = None THEN <<>> ELSE << <<g, cache[g][1]>> >>)
             \o CacheSnapshot(cache, g + 1)

\* the rows an executemany of `UPDATE ... SET is_active = 0 WHERE guild_id = ?`
\* leaves
RECURSIVE Deactivate(_, _)
Deactivate(row, guilds) ==
    IF guilds = <<>> THEN row
    ELSE Deactivate([row EXCEPT ![Head(guilds)] = IF @ = "none" THEN "none" ELSE "inactive"],
                    Tail(guilds))

\* for last_count, guild_id in bulk_last_count_updates: cache[guild_id] = last_count
RECURSIVE StoreCounts(_, _)
StoreCounts(cache, updates) ==
    IF updates = <<>> THEN cache
    ELSE StoreCounts([cache EXCEPT ![Head(updates)[2]] = Some(Head(updates)[1])],
                     Tail(updates))

\* for guild_id in guilds_to_deactivate: cache.pop(guild_id, None)
RECURSIVE PopGuilds(_, _)
PopGuilds(cache, guilds) ==
    IF guilds = <<>> THEN cache
    ELSE PopGuilds([cache EXCEPT ![Head(guilds)] = None], Tail(guilds))

\* the end of a monitor run: the writes under self.lock, then the cache
MtFinish(updates, deact) ==
    /\ mt_row' = (IF deact # <<>> THEN Deactivate(mt_row, deact) ELSE mt_row)
    /\ mt_cache' = (IF updates # <<>> \/ deact # <<>>
                    THEN PopGuilds(StoreCounts(mt_cache, updates), deact)
                    ELSE mt_cache)
    /\ mt_pc' = "idle"
    /\ mt_todo' = <<>>
    /\ mt_updates' = <<>>
    /\ mt_deact' = <<>>
    /\ mt_settled' = mt_fresh
    /\ mt_fresh' = FALSE

\* member_count_monitor begins: it takes the snapshot
MtMonitorStart ==
    /\ mt_pc = "idle"
    /\ LET snapshot == CacheSnapshot(mt_cache, 1)
       IN  IF snapshot = <<>>
           THEN /\ mt_settled' = TRUE
                /\ UNCHANGED <<mt_pc, mt_todo, mt_fresh>>
           ELSE /\ mt_pc' = "scan"
                /\ mt_todo' = snapshot
                /\ mt_fresh' = TRUE
                /\ mt_settled' = FALSE
    /\ UNCHANGED <<mt_row, mt_goal, mt_cache, mt_members, mt_updates, mt_deact>>
    /\ UNCHANGED notMt

\* one pass of `for guild_id, last_member_count in cache_snapshot`; after
\* the last one the sends are gathered and the run is finished
MtCheck ==
    /\ mt_pc = "scan"
    /\ LET guild_id == Head(mt_todo)[1]
           last_member_count == Head(mt_todo)[2]
           current_count == mt_members[guild_id]
           updates == Append(mt_updates, <<current_count, guild_id>>)
           announced == current_count > last_member_count /\ mt_row[guild_id] = "active"
           member_goal == mt_goal[guild_id]
           deact == IF announced /\ member_goal # 0 /\ current_count >= member_goal
                    THEN Append(mt_deact, guild_id) ELSE mt_deact
       IN  IF Tail(mt_todo) = <<>>
           THEN MtFinish(updates, deact)
           ELSE /\ mt_todo' = Tail(mt_todo)
                /\ mt_updates' = updates
                /\ mt_deact' = deact
                /\ UNCHANGED <<mt_row, mt_cache, mt_pc, mt_fresh, mt_settled>>
    /\ UNCHANGED <<mt_goal, mt_members>>
    /\ UNCHANGED notMt

MtNext ==
    \/ \E g \in MtGuilds : MtEnable(g) \/ MtDisable(g) \/ MtReset(g) \/ MtJoin(g)
    \/ \E g \in MtGuilds, goal_val \in MtGoals : MtSetGoal(g, goal_val)
    \/ MtMonitorStart
    \/ MtCheck

(***************************************************************************)
(* Claims about MemberCountTracker.                                        *)
(***************************************************************************)
\* C13: once a monitor run that began after the last command has completed,
\* the guilds of _active_guild_counts are the guilds whose member_tracker
\* row has is_active = 1.
C13_CacheMatchesActiveRows ==
    mt_settled =>
        {g \in MtGuilds : mt_cache[g] # None} = {g \in MtGuilds : mt_row[g] = "active"}

(***************************************************************************)
(* StickyMessages: the panels of one guild that are assigned to one        *)
(* channel, and the commands and listeners that change them, one handler   *)
(* at a time.  _active_panels is keyed by the channel.  A Discord call     *)
(* succeeds or fails as Discord decides.                                   *)
(***************************************************************************)
MaxPanels == 2
MaxPanelMessages == 3

SpPanels == 1 .. MaxPanels

SpIdle ==
    /\ sp_row = [p \in SpPanels |-> None]
    /\ sp_cache = None
    /\ sp_live = {}
    /\ sp_ids = 0
    /\ sp_pc = "off"

\* after cog_load with an empty sticky_panels table
SpInit ==
    /\ sp_row = [p \in SpPanels |-> None]
    /\ sp_cache = None
    /\ sp_live = {}
    /\ sp_ids = 0
    /\ sp_pc = "run"

SpRunning == sp_pc = "run"

\* message = await channel.send(embed=embed); UPDATE sticky_panels SET
\* last_message_id = message.id; _set_active_panel(channel_id, ActivePanel(...))
SpActivate(p, live) ==
    /\ sp_ids < MaxPanelMessages
    /\ sp_ids' = sp_ids + 1
    /\ sp_live' = live \cup {sp_ids + 1}
    /\ sp_row' = [sp_row EXCEPT ![p] = Some(sp_ids + 1)]
    /\ sp_cache' = <<p, sp_ids + 1>>

\* PanelSetupModal.on_submit for a name not in use: INSERT with
\* last_message_id NULL, then the panel is started unless the send fails
SpSetup(p, sent) ==
    /\ SpRunning
    /\ sp_row[p] = None
    /\ IF sent
       THEN SpActivate(p, sp_live)
       ELSE /\ sp_row' = [sp_row EXCEPT ![p] = Some(0)]
            /\ UNCHANGED <<sp_cache, sp_live, sp_ids>>
    /\ UNCHANGED sp_pc
    /\ UNCHANGED notSp

\* panel_start: refused unless the row exists with last_message_id NULL
SpStart(p, sent) ==
    /\ SpRunning
    /\ sp_row[p] = Some(0)
    /\ IF sent
       THEN SpActivate(p, sp_live)
       ELSE UNCHANGED <<sp_row, sp_cache, sp_live, sp_ids>>
    /\ UNCHANGED sp_pc
    /\ UNCHANGED notSp

\* panel_stop: refused unless last_message_id is set; the message is deleted
\* (NotFound and Forbidden are passed over), last_message_id = NULL, and
\* _remove_active_panel(channel_id)
SpStop(p, deleted) ==
    /\ SpRunning
    /\ sp_row[p] # None /\ sp_row[p] # Some(0)
    /\ deleted => sp_row[p][1] \in sp_live
    /\ sp_live' = IF deleted THEN sp_live \ {sp_row[p][1]} ELSE sp_live
    /\ sp_row' = [sp_row EXCEPT ![p] = Some(0)]
    /\ sp_cache' = None
    /\ UNCHANGED <<sp_ids, sp_pc>>
    /\ UNCHANGED notSp

\* panel_delete: the message, if any, is deleted, the row is deleted, and
\* `if channel_id: await self._remove_active_panel(channel_id)`
SpDelete(p, deleted) ==
    /\ SpRunning
    /\ sp_row[p] # None
    /\ deleted => sp_row[p][1] \in sp_live
    /\ sp_live' = IF deleted THEN sp_live \ {sp_row[p][1]} ELSE sp_live
    /\ sp_row' = [sp_row EXCEPT ![p] = None]
    /\ sp_cache' = None
    /\ UNCHANGED <<sp_ids, sp_pc>>
    /\ UNCHANGED notSp

\* update_sticky_message(panel_row, channel) for panel p: the old message is
\* fetched and deleted ("ok"), is gone ("missing"), or may not be read
\* ("forbidden": return); then send, UPDATE and _set_active_panel, or the
\* send raises and nothing more is done
SpUpdateSticky(p, fetched, sent) ==
    LET last_message_id == sp_row[p][1]
        live == IF fetched = "ok" THEN sp_live \ {last_message_id} ELSE sp_live
    IN  /\ fetched = "ok" => last_message_id \in sp_live
        /\ fetched = "missing" => last_message_id \notin sp_live
        /\ IF fetched = "forbidden" /\ last_message_id # 0
           THEN UNCHANGED <<sp_row, sp_cache, sp_live, sp_ids>>
           ELSE IF sent
                THEN SpActivate(p, live)
                ELSE /\ sp_live' = live
                     /\ UNCHANGED <<sp_row, sp_cache, sp_ids>>

SpFetches == {"ok", "missing", "forbidden"}

\* on_message of a qualifying message: the cached panel's row is read; no
\* row: _remove_active_panel; else update_sticky_message
SpOnMessage(fetched, sent) ==
    /\ SpRunning
    /\ sp_cache # None
    /\ LET p == sp_cache[1]
       IN  IF sp_row[p] = None
           THEN /\ sp_cache' = None
                /\ UNCHANGED <<sp_row, sp_live, sp_ids>>
           ELSE SpUpdateSticky(p, fetched, sent)
    /\ UNCHANGED sp_pc
    /\ UNCHANGED notSp

\* sticky_monitor for the channel's entry: fetch_message(panel.last_message_id)
\* finds it ("ok"), raises NotFound ("missing": the row is read again and
\* update_sticky_message repairs) or Forbidden (_remove_active_panel)
SpMonitor(found, fetched, sent) ==
    /\ SpRunning
    /\ sp_cache # None
    /\ found = "ok" => sp_cache[2] \in sp_live
    /\ found = "missing" => sp_cache[2] \notin sp_live
    /\ LET p == sp_cache[1]
       IN  CASE found = "ok" -> UNCHANGED <<sp_row, sp_cache, sp_live, sp_ids>>
             [] found = "forbidden" ->
                    /\ sp_cache' = None
                    /\ UNCHANGED <<sp_row, sp_live, sp_ids>>
             [] OTHER ->
                    IF sp_row[p] = None
                    THEN /\ sp_cache' = None
                         /\ UNCHANGED <<sp_row, sp_live, sp_ids>>
                    ELSE SpUpdateSticky(p, fetched, sent)
    /\ UNCHANGED sp_pc
    /\ UNCHANGED notSp

\* somebody deletes a sticky message in the channel
SpUserDelete(m) ==
    /\ SpRunning
    /\ m \in sp_live
    /\ sp_live' = sp_live \ {m}
    /\ UNCHANGED <<sp_row, sp_cache, sp_ids, sp_pc>>
    /\ UNCHANGED notSp

SpNext ==
    \/ \E p \in SpPanels, ok \in BOOLEAN :
            SpSetup(p, ok) \/ SpStart(p, ok) \/ SpStop(p, ok) \/ SpDelete(p, ok)
    \/ \E fetched \in SpFetches, sent \in BOOLEAN : SpOnMessage(fetched, sent)
    \/ \E found \in SpFetches, fetched \in SpFetches, sent \in BOOLEAN :
            SpMonitor(found, fetched, sent)
    \/ \E m \in 1 .. MaxPanelMessages : SpUserDelete(m)

(***************************************************************************)
(* Claims about the active-panel cache.                                    *)
(***************************************************************************)
C14_ActiveRows == {p \in SpPanels : sp_row[p] # None /\ sp_row[p] # Some(0)}

\* C14: with no handler in flight, the channel has a cache entry exactly when
\* one of its panels has a row with last_message_id set, and the entry's
\* panel_id and last_message_id are those of such a row.
C14_CacheMatchesRows ==
    SpRunning =>
        /\ sp_cache # None <=> C14_ActiveRows # {}
        /\ sp_cache # None =>
               /\ sp_cache[1] \in C14_ActiveRows
               /\ sp_row[sp_cache[1]] = Some(sp_cache[2])

(***************************************************************************)
(* WelcomeCog: /welcome toggle and populate_caches.  The pooled            *)
(* connections are opened with aiosqlite.connect(path, timeout=5), i.e.    *)
(* sqlite3's default isolation_level: an INSERT or DELETE opens a          *)
(* transaction that lasts until commit() or rollback(), and only committed *)
(* rows are seen by other connections and by a later process.              *)
(***************************************************************************)
MaxWelcomeGuilds == 3
MaxWelcomeChannels == 2
WelcomePoolSize == 2

WlGuilds == 1 .. MaxWelcomeGuilds
WlChannels == 1 .. MaxWelcomeChannels
WlConns == 1 .. WelcomePoolSize

WlIdle ==
    /\ wl_db = [g \in WlGuilds |-> 0]
    /\ wl_tx = [c \in WlConns |-> None]
    /\ wl_pool = <<>>
    /\ wl_cache = [g \in WlGuilds |-> 0]
    /\ wl_last = 0
    /\ wl_pc = "off"

\* populate_caches: welcome_cache is what SELECT * FROM welcome_settings
\* returns, the committed rows
PopulateCaches(db) == [g \in WlGuilds |-> db[g]]

\* cog_load in a fresh process: init_pools, init_db, populate_caches
WlLoaded(db) ==
    /\ wl_db = db
    /\ wl_tx = [c \in WlConns |-> None]
    /\ wl_pool = [i \in 1 .. WelcomePoolSize |-> i]
    /\ wl_cache = PopulateCaches(db)
    /\ wl_last = 0
    /\ wl_pc = "run"

WlInit == WlLoaded([g \in WlGuilds |-> 0])

\* a connection's statement that writes: refused while another connection
\* has an open write transaction (busy_timeout passes, "database is locked")
WriteLocked(c) == \E d \in WlConns \ {c} : wl_tx[d] # None

\* the table as connection c reads it
WlView(c) == IF wl_tx[c] = None THEN wl_db ELSE wl_tx[c][1]

\* welcome(interaction, channel): channel_id 0 stands for `channel=None`.
\* acquire_db gives the head of the queue and puts it back at the end; the
\* statement is executed and never committed; then the cache is updated.
\* When the statement raises, the command ends there.
WlToggle(guild_id, channel_id) ==
    /\ wl_pc = "run"
    /\ wl_pool # <<>>
    /\ LET c == Head(wl_pool)
       IN  /\ wl_pool' = Append(Tail(wl_pool), c)
           /\ IF WriteLocked(c)
              THEN /\ wl_last' = 0
                   /\ UNCHANGED <<wl_tx, wl_cache>>
              ELSE /\ wl_tx' = [wl_tx EXCEPT ![c] =
                                   Some([WlView(c) EXCEPT ![guild_id] = channel_id])]
                   /\ wl_cache' = [wl_cache EXCEPT ![guild_id] = channel_id]
                   /\ wl_last' = guild_id
    /\ UNCHANGED <<wl_db, wl_pc>>
    /\ UNCHANGED notWl

\* the process ends and the bot is started again: open transactions are
\* rolled back, cog_load runs
WlRestart ==
    /\ wl_pc = "run"
    /\ wl_tx' = [c \in WlConns |-> None]
    /\ wl_pool' = [i \in 1 .. WelcomePoolSize |-> i]
    /\ wl_cache' = PopulateCaches(wl_db)
    /\ wl_last' = 0
    /\ UNCHANGED <<wl_db, wl_pc>>
    /\ UNCHANGED notWl

WlNext ==
    \/ \E g \in WlGuilds, ch \in {0} \cup WlChannels : WlToggle(g, ch)
    \/ WlRestart

(***************************************************************************)
(* Claims about the welcome settings.                                      *)
(***************************************************************************)
\* C15: once /welcome toggle has completed for a guild, populate_caches in a
\* fresh process would give that guild what the cache holds now: the same
\* channel after an enable, no entry after a disable.
C15_WrittenThrough ==
    wl_last # 0 => PopulateCaches(wl_db)[wl_last] = wl_cache[wl_last]

(***************************************************************************)
(* Alerts: PushAlertModal.on_submit, _load_current_alert, /alert and       *)
(* on_interaction as concurrent handlers.  A handler suspends at every     *)
(* awaited database call; the pool holds as many connections as there are  *)
(* handlers, so `await self._pool.get()` does not suspend.  The TTL caches *)
(* are modelled without a clock: a handler starts either while every       *)
(* stored entry is still fresh or after all of them have expired.          *)
(***************************************************************************)
MaxPushes == 2
MaxPushUsers == 2
MaxPushTasks == 2

ApUsers == 1 .. MaxPushUsers
ApTasks == 1 .. MaxPushTasks

ApIdleTask == [pc |-> "idle", alert |-> 0, user |-> 0, position |-> 0, wrote |-> FALSE]

ApIdle ==
    /\ ap_seq = 0
    /\ ap_alerts = {}
    /\ ap_reads = {}
    /\ ap_current = 0
    /\ ap_cache = {}
    /\ ap_cool = {}
    /\ ap_lock = 0
    /\ ap_task = [t \in ApTasks |-> [ApIdleTask EXCEPT !.pc = "off"]]
    /\ ap_report = None

\* after cog_load on a new database: both tables empty, no current alert
ApInit ==
    /\ ap_seq = 0
    /\ ap_alerts = {}
    /\ ap_reads = {}
    /\ ap_current = 0
    /\ ap_cache = {}
    /\ ap_cool = {}
    /\ ap_lock = 0
    /\ ap_task = [t \in ApTasks |-> ApIdleTask]
    /\ ap_report = None

\* SELECT * FROM alerts ORDER BY id DESC LIMIT 1: the id of the row (0: none)
LatestAlert(alerts) ==
    IF alerts = {} THEN 0
    ELSE CHOOSE i \in {a.id : a \in alerts} : \A a \in alerts : a.id <= i

\* SELECT position FROM alert_reads WHERE alert_id = ? AND user_id = ?
ReadRows(reads, alert, user) == {r \in reads : r[1] = alert /\ r[2] = user}

\* UPDATE alerts SET read_count = read_count + 1 WHERE id = ?
BumpReadCount(alerts, alert) ==
    {IF a.id = alert THEN [a EXCEPT !.read_count = @ + 1] ELSE a : a \in alerts}

\* position = int(row2["read_count"]) if row2 else 1
PositionAfterBump(alerts, alert) ==
    LET rows == {a \in BumpReadCount(alerts, alert) : a.id = alert}
    IN  IF rows = {} THEN 1 ELSE (CHOOSE a \in rows : TRUE).read_count

\* _position_cache.get(key) and _position_cache[key] = (position, expiry)
CacheEntries(cache, alert, user) == {e \in cache : e[1] = alert /\ e[2] = user}
CachePut(cache, alert, user, position) ==
    (cache \ CacheEntries(cache, alert, user)) \cup {<<alert, user, position>>}

\* _cleanup_position_cache and _cleanup_reminder_cooldowns
CleanedUp(entries, expired) == IF expired THEN {} ELSE entries

\* /alert up to its first suspension: the current alert is captured, the
\* position cache cleaned and looked up; a cached position is reported
ApAlert(t, u, expired) ==
    /\ ap_task[t].pc = "idle"
    /\ ap_current # 0
    /\ LET alert   == ap_current
           cleaned == CleanedUp(ap_cache, expired)
           cached  == CacheEntries(cleaned, alert, u)
       IN  /\ ap_cache' = cleaned
           /\ IF cached # {}
              THEN /\ ap_report' = Some(CHOOSE e \in cached : TRUE)
                   /\ UNCHANGED ap_task
              ELSE /\ ap_report' = None
                   /\ ap_task' = [ap_task EXCEPT ![t] =
                          [ApIdleTask EXCEPT !.pc = "r_begin", !.alert = alert, !.user = u]]
    /\ UNCHANGED <<ap_seq, ap_alerts, ap_reads, ap_current, ap_cool, ap_lock>>
    /\ UNCHANGED notAp

\* BEGIN IMMEDIATE and the statements of /alert's transaction
ApReadBegin(t) ==
    /\ ap_task[t].pc = "r_begin"
    /\ ap_lock = 0
    /\ ap_lock' = t
    /\ LET me  == ap_task[t]
           row == ReadRows(ap_reads, me.alert, me.user)
       IN  ap_task' = [ap_task EXCEPT ![t] =
               IF row # {}
               THEN [me EXCEPT !.pc = "r_commit", !.position = (CHOOSE r \in row : TRUE)[3]]
               ELSE [me EXCEPT !.pc = "r_commit", !.wrote = TRUE,
                                !.position = PositionAfterBump(ap_alerts, me.alert)]]
    /\ ap_report' = None
    /\ UNCHANGED <<ap_seq, ap_alerts, ap_reads, ap_current, ap_cache, ap_cool>>
    /\ UNCHANGED notAp

\* BEGIN IMMEDIATE gives up after busy_timeout: ROLLBACK, the exception
\* leaves the handler
ApReadBusy(t) ==
    /\ ap_task[t].pc = "r_begin"
    /\ ap_lock \notin {0, t}
    /\ ap_task' = [ap_task EXCEPT ![t] = ApIdleTask]
    /\ ap_report' = None
    /\ UNCHANGED <<ap_seq, ap_alerts, ap_reads, ap_current, ap_cache, ap_cool, ap_lock>>
    /\ UNCHANGED notAp

\* await db.commit() of /alert
ApReadCommit(t) ==
    /\ ap_task[t].pc = "r_commit"
    /\ LET me == ap_task[t]
       IN  IF me.wrote
           THEN /\ ap_alerts' = BumpReadCount(ap_alerts, me.alert)
                /\ ap_reads' = ap_reads \cup {<<me.alert, me.user, me.position>>}
           ELSE UNCHANGED <<ap_alerts, ap_reads>>
    /\ ap_lock' = 0
    /\ ap_task' = [ap_task EXCEPT ![t].pc = "r_store"]
    /\ ap_report' = None
    /\ UNCHANGED <<ap_seq, ap_current, ap_cache, ap_cool>>
    /\ UNCHANGED notAp

\* the position is cached and the footer "You are #position" is sent
ApReadStore(t) ==
    /\ ap_task[t].pc = "r_store"
    /\ LET me == ap_task[t]
       IN  /\ ap_cache' = CachePut(ap_cache, me.alert, me.user, me.position)
           /\ ap_report' = Some(<<me.alert, me.user, me.position>>)
    /\ ap_task' = [ap_task EXCEPT ![t] = ApIdleTask]
    /\ UNCHANGED <<ap_seq, ap_alerts, ap_reads, ap_current, ap_cool, ap_lock>>
    /\ UNCHANGED notAp

\* on_interaction up to its first suspension
ApInteraction(t, u, expired) ==
    /\ ap_task[t].pc = "idle"
    /\ ap_current # 0
    /\ LET alert   == ap_current
           cool    == CleanedUp(ap_cool, expired)
           cleaned == CleanedUp(ap_cache, expired)
       IN  /\ ap_cool' = cool
           /\ IF u \in cool
              THEN UNCHANGED <<ap_cache, ap_task>>
              ELSE /\ ap_cache' = cleaned
                   /\ IF CacheEntries(cleaned, alert, u) # {}
                      THEN UNCHANGED ap_task
                      ELSE ap_task' = [ap_task EXCEPT ![t] =
                               [ApIdleTask EXCEPT !.pc = "i_select", !.alert = alert,
                                                  !.user = u]]
    /\ ap_report' = None
    /\ UNCHANGED <<ap_seq, ap_alerts, ap_reads, ap_current, ap_lock>>
    /\ UNCHANGED notAp

\* SELECT 1 FROM alert_reads: a user who has a row gets the cache entry
\* (0, now + TTL), another one the reminder and its cooldown
ApInteractionDone(t) ==
    /\ ap_task[t].pc = "i_select"
    /\ LET me == ap_task[t]
       IN  IF ReadRows(ap_reads, me.alert, me.user) # {}
           THEN /\ ap_cache' = CachePut(ap_cache, me.alert, me.user, 0)
                /\ UNCHANGED ap_cool
           ELSE /\ ap_cool' = ap_cool \cup {me.user}
                /\ UNCHANGED ap_cache
    /\ ap_task' = [ap_task EXCEPT ![t] = ApIdleTask]
    /\ ap_report' = None
    /\ UNCHANGED <<ap_seq, ap_alerts, ap_reads, ap_current, ap_lock>>
    /\ UNCHANGED notAp

\* PushAlertModal.on_submit: BEGIN IMMEDIATE, DELETE FROM alert_reads,
\* DELETE FROM alerts, INSERT INTO alerts, inside the transaction
ApPushBegin(t) ==
    /\ ap_task[t].pc = "idle"
    /\ ap_seq < MaxPushes
    /\ ap_lock = 0
    /\ ap_lock' = t
    /\ ap_task' = [ap_task EXCEPT ![t] = [ApIdleTask EXCEPT !.pc = "p_commit"]]
    /\ ap_report' = None
    /\ UNCHANGED <<ap_seq, ap_alerts, ap_reads, ap_current, ap_cache, ap_cool>>
    /\ UNCHANGED notAp

\* await db.commit() of on_submit: the new row has the next AUTOINCREMENT id
ApPushCommit(t) ==
    /\ ap_task[t].pc = "p_commit"
    /\ ap_seq' = ap_seq + 1
    /\ ap_alerts' = {[id |-> ap_seq + 1, read_count |-> 0]}
    /\ ap_reads' = {}
    /\ ap_lock' = 0
    /\ ap_task' = [ap_task EXCEPT ![t].pc = "p_load"]
    /\ ap_report' = None
    /\ UNCHANGED <<ap_current, ap_cache, ap_cool>>
    /\ UNCHANGED notAp

\* _load_current_alert: the SELECT
ApLoadSelect(t) ==
    /\ ap_task[t].pc = "p_load"
    /\ ap_task' = [ap_task EXCEPT ![t].pc = "p_set", ![t].alert = LatestAlert(ap_alerts)]
    /\ ap_report' = None
    /\ UNCHANGED <<ap_seq, ap_alerts, ap_reads, ap_current, ap_cache, ap_cool, ap_lock>>
    /\ UNCHANGED notAp

\* _load_current_alert: _current_alert is replaced and both caches cleared
ApLoadSet(t) ==
    /\ ap_task[t].pc = "p_set"
    /\ ap_current' = ap_task[t].alert
    /\ ap_cache' = {}
    /\ ap_cool' = {}
    /\ ap_task' = [ap_task EXCEPT ![t] = ApIdleTask]
    /\ ap_report' = None
    /\ UNCHANGED <<ap_seq, ap_alerts, ap_reads, ap_lock>>
    /\ UNCHANGED notAp

ApTaskStep(t) ==
    \/ \E u \in ApUsers, expired \in BOOLEAN : ApAlert(t, u, expired)
    \/ \E u \in ApUsers, expired \in BOOLEAN : ApInteraction(t, u, expired)
    \/ ApReadBegin(t) \/ ApReadBusy(t) \/ ApReadCommit(t) \/ ApReadStore(t)
    \/ ApInteractionDone(t)
    \/ ApPushBegin(t) \/ ApPushCommit(t) \/ ApLoadSelect(t) \/ ApLoadSet(t)

ApNext == \E t \in ApTasks : ApTaskStep(t)

(***************************************************************************)
(* Claims about pushing an alert.                                          *)
(***************************************************************************)
C16_Quiet == \A t \in ApTasks : ap_task[t].pc = "idle"

\* C16: after any interleaving of push-alert submissions and /alert reads,
\* the alerts table holds at most one row and every alert_reads row refers
\* to that row's id: no read receipt exists for an alert that was replaced.
C16_ReceiptsOfCurrentAlert ==
    C16_Quiet =>
        /\ Cardinality(ap_alerts) <= 1
        /\ \A r \in ap_reads : \E a \in ap_alerts : a.id = r[1]

\* C17: the position that /alert reports to a user is the 1-based position
\* stored in alert_reads for that (alert, user) pair and never 0, whatever
\* the position cache holds, entries written by on_interaction included.
C17_ReportedPositionIsStored ==
    ap_report # None =>
        /\ ap_report[1][3] >= 1
        /\ \A r \in ReadRows(ap_reads, ap_report[1][1], ap_report[1][2]) :
               r[3] = ap_report[1][3]

(***************************************************************************)
(* StickyMessages.sticky_monitor: the for loop over active_snapshot with   *)
(* its inner try around fetch_message and the outer try around the whole   *)
(* body.  update_sticky_message catches every exception itself; an         *)
(* exception raised inside the `except discord.NotFound:` handler is not   *)
(* caught by the except clauses next to it.                                *)
(***************************************************************************)
MaxMonitorPanels == 3

MoChannels == 1 .. MaxMonitorPanels
\* what channel.fetch_message does, or that guild.get_channel finds nothing
FetchOutcomes == {"found", "not_found", "forbidden", "error", "no_channel"}
\* what get_panel_by_id does
RowOutcomes == {"row", "no_row", "db_error"}

MoIdle ==
    /\ mo_active = {}
    /\ mo_snapshot = {}
    /\ mo_todo = <<>>
    /\ mo_checked = {}
    /\ mo_failed = {}
    /\ mo_pc = "off"

\* after cog_load: _prime_active_cache has loaded the active panels
MoInit ==
    /\ mo_active \in SUBSET MoChannels
    /\ mo_snapshot = {}
    /\ mo_todo = <<>>
    /\ mo_checked = {}
    /\ mo_failed = {}
    /\ mo_pc = "idle"

\* list(self._active_panels.items()), in the order of the channel ids
RECURSIVE SnapshotItems(_, _)
SnapshotItems(active, from) ==
    IF from > MaxMonitorPanels THEN <<>>
    ELSE IF from \in active THEN <<from>> \o SnapshotItems(active, from + 1)
    ELSE SnapshotItems(active, from + 1)

\* /sticky panel start between two iterations: _set_active_panel
MoPanelStart(c) ==
    /\ mo_pc = "idle"
    /\ c \notin mo_active
    /\ mo_active' = mo_active \cup {c}
    /\ UNCHANGED <<mo_snapshot, mo_todo, mo_checked, mo_failed, mo_pc>>
    /\ UNCHANGED notMo

\* sticky_monitor up to the for loop
MoStart ==
    /\ mo_pc = "idle"
    /\ mo_active # {}
    /\ mo_snapshot' = mo_active
    /\ mo_todo' = SnapshotItems(mo_active, 1)
    /\ mo_checked' = {}
    /\ mo_failed' = {}
    /\ mo_pc' = "loop"
    /\ UNCHANGED mo_active
    /\ UNCHANGED notMo

\* whether the exception of one panel's check leaves the for loop: a
\* database error of get_panel_by_id is raised inside the NotFound handler
\* and reaches the outer `except Exception`
LeavesLoop(fetch, row) == fetch = "not_found" /\ row = "db_error"

\* whether the check ends with _remove_active_panel(channel_id)
RemovesPanel(fetch, row) ==
    \/ fetch \in {"no_channel", "forbidden"}
    \/ fetch = "not_found" /\ row = "no_row"

\* one pass of the for loop's body
MoCheck(fetch, row) ==
    /\ mo_pc = "loop"
    /\ mo_todo # <<>>
    /\ fetch # "not_found" => row = "row"
    /\ LET c    == Head(mo_todo)
           rest == IF LeavesLoop(fetch, row) THEN <<>> ELSE Tail(mo_todo)
       IN  /\ mo_checked' = mo_checked \cup {c}
           /\ mo_failed' = IF fetch = "error" \/ LeavesLoop(fetch, row)
                           THEN mo_failed \cup {c} ELSE mo_failed
           /\ mo_active' = IF RemovesPanel(fetch, row) THEN mo_active \ {c} ELSE mo_active
           /\ mo_todo' = rest
           /\ mo_pc' = IF rest = <<>> THEN "idle" ELSE "loop"
    /\ UNCHANGED mo_snapshot
    /\ UNCHANGED notMo

MoNext ==
    \/ \E c \in MoChannels : MoPanelStart(c)
    \/ MoStart
    \/ \E fetch \in FetchOutcomes, row \in RowOutcomes : MoCheck(fetch, row)

(***************************************************************************)
(* Claims about sticky_monitor.                                            *)
(***************************************************************************)
\* C18: in sticky_monitor a failure while checking or repairing one active
\* panel (a fetch error, or a database error while re-reading the panel row
\* after its message was found missing) does not prevent the remaining
\* active panels of the snapshot from being checked in the same iteration.
C18_FailureIsIsolated ==
    (mo_pc = "idle" /\ mo_failed # {}) => mo_snapshot \subseteq mo_checked

(***************************************************************************)
(* Haiku: start_workers creates worker_count tasks running _haiku_worker,  *)
(* `while True: message = await queue.get(); try: ... finally:             *)
(* task_done()`.  The try has no except clause: an exception of the        *)
(* processing (channel.history, message.reply) leaves the while loop and   *)
(* ends the task.  start_workers runs once, in cog_load.                   *)
(***************************************************************************)
worker_count == 5
MaxHaikuMessages == 6

HkMessages == 1 .. MaxHaikuMessages

HkIdle ==
    /\ hk_queue = <<>>
    /\ hk_sent = 0
    /\ hk_waiting = 0
    /\ hk_busy = {}
    /\ hk_ended = 0
    /\ hk_handled = {}

\* after cog_load: start_workers has created the tasks, each of them waits
\* at the empty queue
HkInit ==
    /\ hk_queue = <<>>
    /\ hk_sent = 0
    /\ hk_waiting = worker_count
    /\ hk_busy = {}
    /\ hk_ended = 0
    /\ hk_handled = {}

\* on_message: await self.haiku_queue.put(message)
HkEnqueue ==
    /\ hk_sent < MaxHaikuMessages
    /\ hk_waiting + Cardinality(hk_busy) + hk_ended = worker_count
    /\ hk_sent' = hk_sent + 1
    /\ hk_queue' = Append(hk_queue, hk_sent + 1)
    /\ UNCHANGED <<hk_waiting, hk_busy, hk_ended, hk_handled>>
    /\ UNCHANGED notHk

\* message = await self.haiku_queue.get(), in one of the waiting tasks
HkGet ==
    /\ hk_waiting > 0
    /\ hk_queue # <<>>
    /\ hk_busy' = hk_busy \cup {Head(hk_queue)}
    /\ hk_queue' = Tail(hk_queue)
    /\ hk_waiting' = hk_waiting - 1
    /\ UNCHANGED <<hk_sent, hk_ended, hk_handled>>
    /\ UNCHANGED notHk

\* the tasks that are back at the top of `while True` after the try
\* statement: an exception leaves the loop and the coroutine
BackAtGet(raised) == IF raised THEN 0 ELSE 1

\* the body of the try and its finally, for the message m
HkProcess(m, raised) ==
    /\ m \in hk_busy
    /\ hk_busy' = hk_busy \ {m}
    /\ hk_handled' = hk_handled \cup {m}
    /\ hk_waiting' = hk_waiting + BackAtGet(raised)
    /\ hk_ended' = hk_ended + (1 - BackAtGet(raised))
    /\ UNCHANGED <<hk_queue, hk_sent>>
    /\ UNCHANGED notHk

HkFinish(m) == \E raised \in BOOLEAN : HkProcess(m, raised)

HkNext == HkEnqueue \/ HkGet \/ \E m \in HkMessages : HkFinish(m)

\* the event loop runs every task that can continue, and the calls a worker
\* awaits return or raise
HkFairness == WF_vars(HkGet) /\ \A m \in HkMessages : WF_vars(HkFinish(m))

(***************************************************************************)
(* Claims about the haiku workers.                                         *)
(***************************************************************************)
C19_Queued(m) == \E i \in 1 .. Len(hk_queue) : hk_queue[i] = m

\* C19: an exception raised while processing one queued message does not
\* stop later work: every message enqueued afterwards is still eventually
\* taken from haiku_queue and processed, however many earlier messages
\* failed.
C19_QueuedIsProcessed == \A m \in HkMessages : C19_Queued(m) ~> (m \in hk_handled)

(***************************************************************************)
(* MemberTrackerEditModal.on_submit.  The handlers run one at a time       *)
(* (cog.lock) and get_db_connection pops and appends at the end of         *)
(* _db_pool, so each of them gets the same connection.  The connection is  *)
(* opened with sqlite3's default isolation_level: an UPDATE opens a        *)
(* transaction that lasts until commit(), rollback() or close().  The      *)
(* guild's row is active.                                                  *)
(***************************************************************************)
MaxRejected == 2

\* the text of the three fields; "" is a field left blank
GoalTexts == {"", "1", "2", "0", "-1", "abc"}
FormatTexts == {"", "{member_count} members", "members"}
ColorTexts == {"", "#FFA500", "red"}

\* int(self.member_goal.value): the value, or -1000 for ValueError
IntOrError(text) ==
    CASE text = "1" -> 1 [] text = "2" -> 2 [] text = "0" -> 0 [] text = "-1" -> -1
      [] OTHER -> -1000

\* goal_val = int(...); if goal_val <= 0: raise ValueError
GoalValid(text) == IntOrError(text) # -1000 /\ ~(IntOrError(text) <= 0)

\* any(token in template for token in ("{member_count}", "{remaining_until_goal}"))
FormatValid(text) == text = "{member_count} members"

\* re.fullmatch(r"[0-9a-fA-F]{6}", value.strip().lstrip("#"))
ColorValid(text) == text = "#FFA500"

EmDefaultRow == [member_goal |-> 0, custom_format |-> "", color |-> ""]

EmIdle ==
    /\ em_db = EmDefaultRow
    /\ em_tx = None
    /\ em_accepted = EmDefaultRow
    /\ em_rejected = 0
    /\ em_pc = "off"

\* after /membertracker enable: the row exists with its columns NULL
EmInit ==
    /\ em_db = EmDefaultRow
    /\ em_tx = None
    /\ em_accepted = EmDefaultRow
    /\ em_rejected = 0
    /\ em_pc = "run"

\* what the connection reads: its open transaction, or the committed row
EmView == IF em_tx = None THEN em_db ELSE em_tx[1]

\* the UPDATE statements on_submit has executed when it returns or commits:
\* the fields are handled in the order goal, format, color, and the first
\* invalid one returns
GoalApplied(row, goal) ==
    IF goal # "" /\ GoalValid(goal) THEN [row EXCEPT !.member_goal = IntOrError(goal)] ELSE row
FormatApplied(row, goal, format) ==
    IF (goal = "" \/ GoalValid(goal)) /\ format # "" /\ FormatValid(format)
    THEN [row EXCEPT !.custom_format = format] ELSE row
ColorApplied(row, goal, format, color) ==
    IF /\ goal = "" \/ GoalValid(goal)
       /\ format = "" \/ FormatValid(format)
       /\ color # "" /\ ColorValid(color)
    THEN [row EXCEPT !.color = color] ELSE row
Executed(row, goal, format, color) ==
    ColorApplied(FormatApplied(GoalApplied(row, goal), goal, format), goal, format, color)

\* whether on_submit reaches `await db.commit()`
Accepted(goal, format, color) ==
    /\ goal = "" \/ GoalValid(goal)
    /\ format = "" \/ FormatValid(format)
    /\ color = "" \/ ColorValid(color)

\* the transaction after the UPDATEs: none was opened when none ran
TxAfter(row) == IF em_tx = None /\ row = em_db THEN None ELSE Some(row)

\* on_submit
EmSubmit(goal, format, color) ==
    /\ em_pc = "run"
    /\ LET row == Executed(EmView, goal, format, color)
       IN  IF Accepted(goal, format, color)
           THEN /\ em_db' = row
                /\ em_tx' = None
                /\ em_accepted' = Executed(em_accepted, goal, format, color)
                /\ UNCHANGED em_rejected
           ELSE /\ em_rejected < MaxRejected
                /\ em_tx' = TxAfter(row)
                /\ em_rejected' = em_rejected + 1
                /\ UNCHANGED <<em_db, em_accepted>>
    /\ UNCHANGED em_pc
    /\ UNCHANGED notEm

\* cog_unload and cog_load: the connection is closed, its open transaction
\* rolled back, and a new one is opened
EmReload ==
    /\ em_pc = "run"
    /\ em_tx # None
    /\ em_tx' = None
    /\ UNCHANGED <<em_db, em_accepted, em_rejected, em_pc>>
    /\ UNCHANGED notEm

EmNext ==
    \/ \E goal \in GoalTexts, format \in FormatTexts, color \in ColorTexts :
           EmSubmit(goal, format, color)
    \/ EmReload

(***************************************************************************)
(* Claims about the edit modal.                                            *)
(***************************************************************************)
\* C21: when the edit modal rejects a submission, no column of the guild's
\* member_tracker row is changed then or later as a result of that
\* submission, even when an earlier field of the same submission was valid
\* and had been applied on the connection: the stored row is what the
\* accepted submissions have made it.
C21_RejectedChangesNothing == em_rejected > 0 => em_db = em_accepted

(***************************************************************************)
(* ScheduledMessageSetupModal.on_submit, one submission after the other:   *)
(* parse_frequency, the two checks, get_next_message_id and the INSERT.    *)
(* The cache of get_next_message_id has a TTL; a submission finds the      *)
(* entry either fresh or expired.  One guild.                              *)
(***************************************************************************)
MaxSetups == 2
MaxSetupLen == 1

Setup_60s == <<"6", "0", "s">>
Setup_59s == <<"5", "9", "s">>
Setup_tenth == <<"0", ".", "1", "s">>
Setup_1m5s == <<"1", "m", " ", "5", "s">>
Setup_1m == <<"1", "m">>
Setup_5m == <<" ", "5", "M">>
\* the frequency texts of the submissions
SetupTexts ==
    StringsUpTo(MaxSetupLen) \cup
    {Sample_30s, Sample_garbage, Setup_60s, Setup_59s, Setup_tenth, Setup_1m5s, Setup_1m,
     Setup_5m}

SuIdle ==
    /\ su_rows = {}
    /\ su_cache = None
    /\ su_last = None
    /\ su_pc = "off"

\* after cog_load: no row yet
SuInit ==
    /\ su_rows = {}
    /\ su_cache = None
    /\ su_last = None
    /\ su_pc = "run"

\* if frequency_seconds < 60
BelowMinimumNever(frequency_seconds) == FALSE
BelowMinimum(frequency_seconds) == frequency_seconds < min_frequency

\* SELECT MAX(message_id) ...; row[0] if row and row[0] is not None else 0
MaxStoredId(rows) ==
    IF rows = {} THEN 0
    ELSE CHOOSE i \in {r.message_id : r \in rows} : \A r \in rows : r.message_id <= i

\* get_next_message_id: max_id from the fresh cache entry or from the table
NextMessageId(rows, cache, expired) ==
    (IF cache # None /\ ~expired THEN cache[1] ELSE MaxStoredId(rows)) + 1

\* INSERT INTO scheduled_messages: (guild_id, message_id) is the primary key
InsertRow(rows, message_id, frequency_seconds) ==
    IF \E r \in rows : r.message_id = message_id THEN rows
    ELSE rows \cup {[message_id |-> message_id, frequency_seconds |-> frequency_seconds]}

\* on_submit
SuSubmit(text, expired) ==
    /\ su_pc = "run"
    /\ LET frequency_seconds == parse_frequency(text)
       IN  IF frequency_seconds = None
           THEN /\ su_last' = Some([text |-> text, outcome |-> "invalid",
                                    rows |-> su_rows, cache |-> su_cache])
                /\ UNCHANGED <<su_rows, su_cache>>
           ELSE IF BelowMinimum(frequency_seconds[1])
           THEN /\ su_last' = Some([text |-> text, outcome |-> "too_short",
                                    rows |-> su_rows, cache |-> su_cache])
                /\ UNCHANGED <<su_rows, su_cache>>
           ELSE LET message_id == NextMessageId(su_rows, su_cache, expired)
                IN  /\ Cardinality(su_rows) < MaxSetups
                    /\ su_cache' = Some(message_id)
                    /\ su_rows' = InsertRow(su_rows, message_id, frequency_seconds[1])
                    /\ su_last' = Some([text |-> text, outcome |-> "created",
                                        rows |-> su_rows, cache |-> su_cache])
    /\ UNCHANGED su_pc
    /\ UNCHANGED notSu

SuNext == \E text \in SetupTexts, expired \in BOOLEAN : SuSubmit(text, expired)

(***************************************************************************)
(* Claims about the setup modal.                                           *)
(***************************************************************************)
\* the frequency text is unparseable or parses to fewer than 60 seconds
C22_BadFrequency(text) ==
    parse_frequency(text) = None \/ parse_frequency(text)[1] < 60

\* C22: a scheduled-message setup whose frequency string is unparseable or
\* parses to fewer than 60 seconds is rejected with an error and has no side
\* effect: no row is inserted and the guild's cached message-id counter is
\* not advanced; hence every stored row has frequency_seconds >= 60.
C22_RejectedSetupHasNoEffect ==
    /\ \A r \in su_rows : r.frequency_seconds >= 60
    /\ su_last # None =>
           IF C22_BadFrequency(su_last[1].text)
           THEN /\ su_last[1].outcome \in {"invalid", "too_short"}
                /\ su_rows = su_last[1].rows
                /\ su_cache = su_last[1].cache
           ELSE su_last[1].outcome = "created"

\* "30s" submitted after a message was created and its id cached
C22_Witness ==
    /\ su_last # None
    /\ su_last[1].text = Sample_30s
    /\ su_last[1].outcome = "too_short"
    /\ su_rows # {}
    /\ su_cache # None

(***************************************************************************)
(* StarboardCog._schedule_starboard_update and the tasks it creates.       *)
(* _process_starboard_payload sleeps 0.5 s outside its try statement and   *)
(* processes the payload inside it; the finally clause pops                *)
(* _starboard_tasks[message_id].  task.cancel() raises CancelledError at   *)
(* the await the task is suspended at: in the delay the task ends without  *)
(* running the finally clause, inside the try the finally clause runs.     *)
(***************************************************************************)
MaxUpdateTasks == 4
MaxStarMessages == 2

DuTasks == 1 .. MaxUpdateTasks
DuMessages == 1 .. MaxStarMessages

DuIdle ==
    /\ du_created = 0
    /\ du_msg = [t \in DuTasks |-> 0]
    /\ du_state = [t \in DuTasks |-> "none"]
    /\ du_entry = [m \in DuMessages |-> 0]
    /\ du_worked = {}
    /\ du_pc = "off"

\* after cog_load: no update is scheduled
DuInit ==
    /\ du_created = 0
    /\ du_msg = [t \in DuTasks |-> 0]
    /\ du_state = [t \in DuTasks |-> "none"]
    /\ du_entry = [m \in DuMessages |-> 0]
    /\ du_worked = {}
    /\ du_pc = "run"

\* existing.done()
TaskDone(state) == state \in {"done", "cancelled"}

\* existing.cancel(): where the task is after the CancelledError was raised
\* at its await
Cancelled(state) ==
    IF state = "delay" THEN "cancelled"
    ELSE IF state = "run" THEN "unwind"
    ELSE state

\* the finally clause: self._starboard_tasks.pop(payload.message_id, None)
PopEntry(entries, message_id) == [entries EXCEPT ![message_id] = 0]

\* on_raw_reaction_add / on_raw_reaction_remove with the star emoji:
\* _schedule_starboard_update
DuSchedule(m) ==
    /\ du_pc = "run"
    /\ du_created < MaxUpdateTasks
    /\ LET existing == du_entry[m]
           task     == du_created + 1
           states   == IF existing # 0 /\ ~TaskDone(du_state[existing])
                       THEN [du_state EXCEPT ![existing] = Cancelled(@)]
                       ELSE du_state
       IN  /\ du_created' = task
           /\ du_msg' = [du_msg EXCEPT ![task] = m]
           /\ du_state' = [states EXCEPT ![task] = "delay"]
           /\ du_entry' = [du_entry EXCEPT ![m] = task]
    /\ UNCHANGED <<du_worked, du_pc>>
    /\ UNCHANGED notDu

\* await asyncio.sleep(0.5) returns: the task enters the try statement
DuWake(t) ==
    /\ du_state[t] = "delay"
    /\ du_state' = [du_state EXCEPT ![t] = "run"]
    /\ du_worked' = du_worked \cup {t}
    /\ UNCHANGED <<du_created, du_msg, du_entry, du_pc>>
    /\ UNCHANGED notDu

\* the task leaves the try statement, by return or with the CancelledError
DuLeave(t) ==
    /\ du_state[t] \in {"run", "unwind"}
    /\ du_state' = [du_state EXCEPT ![t] = IF @ = "run" THEN "done" ELSE "cancelled"]
    /\ du_entry' = PopEntry(du_entry, du_msg[t])
    /\ UNCHANGED <<du_created, du_msg, du_worked, du_pc>>
    /\ UNCHANGED notDu

DuNext ==
    \/ \E m \in DuMessages : DuSchedule(m)
    \/ \E t \in DuTasks : DuWake(t) \/ DuLeave(t)

(***************************************************************************)
(* Claims about the debounced star updates.                                *)
(***************************************************************************)
\* the updates of message m that are in their delay
C23_Delayed(m) == {t \in DuTasks : du_msg[t] = m /\ du_state[t] = "delay"}

\* C23: a star event that arrives while an earlier scheduled update for the
\* same message is still in its delay cancels that update, which performs
\* nothing; of a burst of such events only the most recently scheduled
\* update is processed.  So an update that is in its delay is the one that
\* was scheduled last for its message.
C23_OnlyLatestIsPending ==
    \A m \in DuMessages :
        \A t \in C23_Delayed(m) : ~\E s \in DuTasks : du_msg[s] = m /\ s > t

\* the update tasks of message m that are neither finished nor cancelled: in
\* their delay or processing, with no cancel() requested
C31_Active(m) == {t \in DuTasks : du_msg[t] = m /\ du_state[t] \in {"delay", "run"}}

\* C31: for each message id at most one update task that is neither
\* finished nor cancelled exists, and while there is one
\* _starboard_tasks[message_id] refers to it.
C31_OneActiveTaskPerMessage ==
    \A m \in DuMessages :
        /\ Cardinality(C31_Active(m)) <= 1
        /\ \A t \in C31_Active(m) : du_entry[m] = t

(***************************************************************************)
(* StarboardCog._process_starboard_payload after its delay, for one        *)
(* non-bot source message outside the starboard channel of a guild whose   *)
(* starboard channel is set, and _writer_loop.  get_star_post reads the    *)
(* committed star_posts row on a connection of its own; upsert_star_post   *)
(* and delete_star_post only put the write on _write_queue.  A post of the *)
(* starboard channel can also be deleted by a moderator.                   *)
(***************************************************************************)
MaxStarTasks == 2
MaxStarPosts == 2
MaxStarQueue == 1

SrTasks == 1 .. MaxStarTasks
\* the star counts an update finds on the message
StarCounts == {default_star_threshold - 1, default_star_threshold}

SrIdleTask == [pc |-> "idle", count |-> 0, existing |-> 0]
NoWrite == [op |-> "none", post |-> 0]

SrIdle ==
    /\ sr_map = 0
    /\ sr_queue = <<>>
    /\ sr_posts = {}
    /\ sr_sent = 0
    /\ sr_task = [t \in SrTasks |-> [SrIdleTask EXCEPT !.pc = "off"]]
    /\ sr_last = None

\* after cog_load: the message has no starboard post
SrInit ==
    /\ sr_map = 0
    /\ sr_queue = <<>>
    /\ sr_posts = {}
    /\ sr_sent = 0
    /\ sr_task = [t \in SrTasks |-> SrIdleTask]
    /\ sr_last = None

\* the delay is over: settings, fetch_message and the star count
SrBegin(t, count) ==
    /\ sr_task[t].pc = "idle"
    /\ sr_task' = [sr_task EXCEPT ![t] = [SrIdleTask EXCEPT !.pc = "read", !.count = count]]
    /\ sr_last' = None
    /\ UNCHANGED <<sr_map, sr_queue, sr_posts, sr_sent>>
    /\ UNCHANGED notSr

\* existing_id = await self.get_star_post(guild.id, message.id)
SrRead(t) ==
    /\ sr_task[t].pc = "read"
    /\ sr_task' = [sr_task EXCEPT ![t].pc = "act", ![t].existing = sr_map]
    /\ sr_last' = None
    /\ UNCHANGED <<sr_map, sr_queue, sr_posts, sr_sent>>
    /\ UNCHANGED notSr

\* what the update does with the starboard channel: "delete" the existing
\* post, "edit" it, "send" a new one, or "nothing"
StarActionNeverEdits(count, existing, existed) ==
    IF count < default_star_threshold
    THEN IF existing # 0 /\ existed THEN "delete" ELSE "nothing"
    ELSE "send"
StarAction(count, existing, existed) ==
    IF count < default_star_threshold
    THEN IF existing # 0 /\ existed THEN "delete" ELSE "nothing"
    ELSE IF existing # 0 /\ existed THEN "edit" ELSE "send"

\* the write the update queues
StarWrite(count, existing, action, ok, post) ==
    IF count < default_star_threshold
    THEN IF existing # 0 THEN [op |-> "delete", post |-> 0] ELSE NoWrite
    ELSE IF action = "send" /\ ok THEN [op |-> "upsert", post |-> post] ELSE NoWrite

\* the rest of the update; ok: the call to the starboard channel succeeds
SrAct(t, ok) ==
    /\ sr_task[t].pc = "act"
    /\ LET me      == sr_task[t]
           existed == me.existing \in sr_posts
           action  == StarAction(me.count, me.existing, existed)
           post    == sr_sent + 1
           write   == StarWrite(me.count, me.existing, action, ok, post)
       IN  /\ action = "send" /\ ok => sr_sent < MaxStarPosts
           /\ write # NoWrite => Len(sr_queue) < MaxStarQueue
           /\ sr_posts' = IF ~ok THEN sr_posts
                          ELSE IF action = "delete" THEN sr_posts \ {me.existing}
                          ELSE IF action = "send" THEN sr_posts \cup {post}
                          ELSE sr_posts
           /\ sr_sent' = IF action = "send" /\ ok THEN post ELSE sr_sent
           /\ sr_queue' = IF write = NoWrite THEN sr_queue ELSE Append(sr_queue, write)
           /\ sr_last' = Some([count |-> me.count, existing |-> me.existing,
                               existed |-> existed, action |-> action, ok |-> ok,
                               write |-> write])
    /\ sr_task' = [sr_task EXCEPT ![t] = SrIdleTask]
    /\ UNCHANGED sr_map
    /\ UNCHANGED notSr

\* _execute_upsert_star_post and _execute_delete_star_post
WriteApplied(map, write) == IF write.op = "upsert" THEN write.post ELSE 0

\* _writer_loop: one queued write; an exception of the write is passed over
SrWriter(ok) ==
    /\ sr_queue # <<>>
    /\ sr_map' = IF ok THEN WriteApplied(sr_map, Head(sr_queue)) ELSE sr_map
    /\ sr_queue' = Tail(sr_queue)
    /\ sr_last' = None
    /\ UNCHANGED <<sr_posts, sr_sent, sr_task>>
    /\ UNCHANGED notSr

\* a moderator deletes a starboard post
SrPostDeleted(p) ==
    /\ p \in sr_posts
    /\ sr_posts' = sr_posts \ {p}
    /\ sr_last' = None
    /\ UNCHANGED <<sr_map, sr_queue, sr_sent, sr_task>>
    /\ UNCHANGED notSr

SrTaskStep(t) ==
    \/ \E count \in StarCounts : SrBegin(t, count)
    \/ SrRead(t)
    \/ \E ok \in BOOLEAN : SrAct(t, ok)

SrNext ==
    \/ \E t \in SrTasks : SrTaskStep(t)
    \/ \E ok \in BOOLEAN : SrWriter(ok)
    \/ \E p \in 1 .. MaxStarPosts : SrPostDeleted(p)

(***************************************************************************)
(* Claims about the star updates.                                          *)
(***************************************************************************)
\* an update was processed to completion in this step
C24_Completed == sr_last # None /\ sr_last[1].ok
C24_Sent == sr_last[1].action = "send" /\ sr_last[1].write = [op |-> "upsert", post |-> sr_sent]
C24_BelowThreshold ==
    sr_last[1].existing # 0 =>
        /\ sr_last[1].existing \notin sr_posts
        /\ sr_last[1].write.op = "delete"

\* C24 as stated: at or above star_threshold with no mapping one post is
\* sent and a mapping to it queued; with a mapping the existing post is
\* edited and no new post is sent; below star_threshold an existing post is
\* deleted and its mapping removed.
C24_EditsWheneverMapped ==
    C24_Completed =>
        IF sr_last[1].count >= default_star_threshold
        THEN IF sr_last[1].existing = 0 THEN C24_Sent
             ELSE sr_last[1].action = "edit" /\ sr_last[1].write = NoWrite
        ELSE C24_BelowThreshold

\* C24, amended: with a mapping whose post still exists the post is edited
\* and no new post is sent; with a mapping whose post is gone one
\* replacement post is sent and a mapping to it is queued.  The other two
\* cases as stated.
C24_EditsOrReplaces ==
    C24_Completed =>
        IF sr_last[1].count >= default_star_threshold
        THEN IF sr_last[1].existing = 0 THEN C24_Sent
             ELSE IF sr_last[1].existed
                  THEN sr_last[1].action = "edit" /\ sr_last[1].write = NoWrite
                  ELSE C24_Sent
        ELSE C24_BelowThreshold

\* an update has replaced the post of a mapping whose post was gone
C24_Witness ==
    /\ C24_Completed
    /\ sr_last[1].count >= default_star_threshold
    /\ sr_last[1].existing # 0
    /\ ~sr_last[1].existed
    /\ sr_last[1].action = "send"

\* C30: a source message never has more than one live starboard post at a
\* time: once a post has been sent for it, every later update edits or
\* deletes that post rather than sending another, under any interleaving of
\* update tasks with the background writer that persists the mapping.
C30_OneLivePost == Cardinality(sr_posts) <= 1

(***************************************************************************)
(* StickyMessages.on_message for a guild channel with an active panel,     *)
(* one event after the other, every call to Discord and to the database    *)
(* succeeding.  A message has an author, who may be the bot, at most one   *)
(* attachment (an image or another file) and possibly an embed with an     *)
(* image.  /sticky panel modes requires a member to turn the whitelist on. *)
(***************************************************************************)
MaxResends == 2
MaxAuthors == 2

OmAuthors == 1 .. MaxAuthors
AttachmentKinds == {"none", "image", "file"}

\* the messages of the channel: the sticky message itself is the bot's
OmMessages ==
    {m \in [bot : BOOLEAN, sticky : BOOLEAN, author : OmAuthors,
            attachment : AttachmentKinds, embed_image : BOOLEAN] :
        /\ m.sticky => m.bot /\ m.attachment = "none" /\ ~m.embed_image
        /\ m.bot => m.author = 1}

\* what /sticky panel modes can leave in the row and the cache
OmModes ==
    {s \in [image_only_mode : BOOLEAN, member_whitelist_enabled : BOOLEAN,
            member_whitelist_id : 0 .. MaxAuthors] :
        s.member_whitelist_enabled <=> s.member_whitelist_id # 0}

OmIdle ==
    /\ om_modes = [image_only_mode |-> FALSE, member_whitelist_enabled |-> FALSE,
                   member_whitelist_id |-> 0]
    /\ om_live = 0
    /\ om_db = 0
    /\ om_cache = 0
    /\ om_last = None
    /\ om_pc = "off"

\* after /sticky panel start: the sticky message 1 is in the channel
OmInit ==
    /\ om_modes = [image_only_mode |-> FALSE, member_whitelist_enabled |-> FALSE,
                   member_whitelist_id |-> 0]
    /\ om_live = 1
    /\ om_db = 1
    /\ om_cache = 1
    /\ om_last = None
    /\ om_pc = "run"

\* /sticky panel modes
OmSetModes(modes) ==
    /\ om_pc = "run"
    /\ modes # om_modes
    /\ om_modes' = modes
    /\ om_last' = None
    /\ UNCHANGED <<om_live, om_db, om_cache, om_pc>>
    /\ UNCHANGED notOm

\* has_images = bool(message.attachments), or an embed with an image
HasImages(message) == message.attachment # "none" \/ message.embed_image

\* the tests of on_message before get_panel_by_id
PassesFilters(message, modes) ==
    /\ ~message.bot
    /\ ~message.sticky
    /\ (modes.member_whitelist_enabled /\ modes.member_whitelist_id # 0)
           => message.author = modes.member_whitelist_id
    /\ modes.image_only_mode => HasImages(message)

\* on_message, with update_sticky_message when the message passes
OmMessage(message) ==
    /\ om_pc = "run"
    /\ om_last' = Some([message |-> message, modes |-> om_modes, live |-> om_live,
                        db |-> om_db, cache |-> om_cache])
    /\ IF PassesFilters(message, om_modes)
       THEN /\ om_live < MaxResends + 1
            /\ om_live' = om_live + 1
            /\ om_db' = om_live + 1
            /\ om_cache' = om_live + 1
       ELSE UNCHANGED <<om_live, om_db, om_cache>>
    /\ UNCHANGED <<om_modes, om_pc>>
    /\ UNCHANGED notOm

OmNext ==
    \/ \E modes \in OmModes : OmSetModes(modes)
    \/ \E message \in OmMessages : OmMessage(message)

(***************************************************************************)
(* Claims about on_message.                                                *)
(***************************************************************************)
\* the message is from a non-bot author, is not the sticky message, comes
\* from the whitelisted member when the whitelist is enabled, and carries
\* an image when image-only mode is on
C25_Qualifies(message, modes) ==
    /\ ~message.bot
    /\ ~message.sticky
    /\ modes.member_whitelist_enabled => message.author = modes.member_whitelist_id
    /\ modes.image_only_mode => (message.attachment = "image" \/ message.embed_image)

\* C25: an on_message event in a channel with an active sticky panel
\* triggers delete-and-resend only if the message qualifies; any other
\* message leaves the sticky message, the database row and the active-panel
\* cache unchanged.
C25_OnlyQualifyingMessagesResend ==
    (om_last # None /\ ~C25_Qualifies(om_last[1].message, om_last[1].modes)) =>
        /\ om_live = om_last[1].live
        /\ om_db = om_last[1].db
        /\ om_cache = om_last[1].cache

(***************************************************************************)
(* StarboardCog.get_guild_settings called by concurrent tasks: the SELECT  *)
(* on a read connection, the INSERT of the default row on a writer         *)
(* connection and the cache store are separated by suspensions.  Of the    *)
(* settings, star_threshold.                                               *)
(***************************************************************************)
MaxSettingsCalls == 3
MaxSettingsGuilds == 2
MaxConcurrentGets == 2

GsTasks == 1 .. MaxConcurrentGets
GsGuilds == 1 .. MaxSettingsGuilds

GsIdle ==
    /\ gs_rows = [g \in GsGuilds |-> None]
    /\ gs_cache = [g \in GsGuilds |-> None]
    /\ gs_pc = [t \in GsTasks |-> "off"]
    /\ gs_guild = [t \in GsTasks |-> 0]
    /\ gs_settings = [t \in GsTasks |-> 0]
    /\ gs_first = [t \in GsTasks |-> FALSE]
    /\ gs_result = [t \in GsTasks |-> None]
    /\ gs_calls = 0

\* after cog_load: an empty cache; a guild has a row or not yet
GsInit ==
    /\ gs_rows \in [GsGuilds -> {None} \cup {<<v>> : v \in Thresholds}]
    /\ gs_cache = [g \in GsGuilds |-> None]
    /\ gs_pc = [t \in GsTasks |-> "idle"]
    /\ gs_guild = [t \in GsTasks |-> 0]
    /\ gs_settings = [t \in GsTasks |-> 0]
    /\ gs_first = [t \in GsTasks |-> FALSE]
    /\ gs_result = [t \in GsTasks |-> None]
    /\ gs_calls = 0

\* get_guild_settings(g) up to the first suspension; fresh: expires_at > now
GsGet(t, g, fresh) ==
    /\ gs_pc[t] = "idle"
    /\ gs_calls < MaxSettingsCalls
    /\ gs_calls' = gs_calls + 1
    /\ gs_guild' = [gs_guild EXCEPT ![t] = g]
    /\ gs_first' = [gs_first EXCEPT ![t] = FALSE]
    /\ IF gs_cache[g] # None /\ fresh
       THEN /\ gs_result' = [gs_result EXCEPT ![t] = <<"returned", gs_cache[g][1]>>]
            /\ UNCHANGED gs_pc
       ELSE /\ gs_result' = [gs_result EXCEPT ![t] = None]
            /\ gs_pc' = [gs_pc EXCEPT ![t] = "read"]
    /\ UNCHANGED <<gs_rows, gs_cache, gs_settings>>
    /\ UNCHANGED notGs

\* SELECT star_threshold, ... FROM guild_settings WHERE guild_id = ?
GsRead(t) ==
    /\ gs_pc[t] = "read"
    /\ LET row == gs_rows[gs_guild[t]]
       IN  IF row = None
           THEN /\ gs_pc' = [gs_pc EXCEPT ![t] = "insert"]
                /\ gs_first' = [gs_first EXCEPT ![t] = TRUE]
                /\ UNCHANGED gs_settings
           ELSE /\ gs_pc' = [gs_pc EXCEPT ![t] = "store"]
                /\ gs_settings' = [gs_settings EXCEPT ![t] = row[1]]
                /\ UNCHANGED gs_first
    /\ UNCHANGED <<gs_rows, gs_cache, gs_guild, gs_result, gs_calls>>
    /\ UNCHANGED notGs

\* INSERT INTO guild_settings (guild_id) VALUES (?): guild_id is the primary
\* key and the statement has no conflict clause
InsertSucceeds(row) == row = None

\* the INSERT and commit on a writer connection; its exception leaves
\* get_guild_settings before the cache is stored
GsInsert(t) ==
    /\ gs_pc[t] = "insert"
    /\ LET g == gs_guild[t]
       IN  IF InsertSucceeds(gs_rows[g])
           THEN /\ gs_rows' = [gs_rows EXCEPT ![g] = <<default_star_threshold>>]
                /\ gs_settings' = [gs_settings EXCEPT ![t] = default_star_threshold]
                /\ gs_pc' = [gs_pc EXCEPT ![t] = "store"]
                /\ UNCHANGED gs_result
           ELSE /\ gs_result' = [gs_result EXCEPT ![t] = <<"raised">>]
                /\ gs_pc' = [gs_pc EXCEPT ![t] = "idle"]
                /\ UNCHANGED <<gs_rows, gs_settings>>
    /\ UNCHANGED <<gs_cache, gs_guild, gs_first, gs_calls>>
    /\ UNCHANGED notGs

\* self._settings_cache[guild_id] = (settings, now + ttl); return settings
GsStore(t) ==
    /\ gs_pc[t] = "store"
    /\ gs_cache' = [gs_cache EXCEPT ![gs_guild[t]] = <<gs_settings[t]>>]
    /\ gs_result' = [gs_result EXCEPT ![t] = <<"returned", gs_settings[t]>>]
    /\ gs_pc' = [gs_pc EXCEPT ![t] = "idle"]
    /\ gs_settings' = [gs_settings EXCEPT ![t] = 0]
    /\ UNCHANGED <<gs_rows, gs_guild, gs_first, gs_calls>>
    /\ UNCHANGED notGs

GsTaskStep(t) ==
    \/ \E g \in GsGuilds, fresh \in BOOLEAN : GsGet(t, g, fresh)
    \/ GsRead(t)
    \/ GsInsert(t)
    \/ GsStore(t)

GsNext == \E t \in GsTasks : GsTaskStep(t)

\* C26: a call of get_guild_settings that found no row for its guild returns
\* the defaults (star_threshold 3) without raising, also when another task
\* accesses the same guild concurrently, and the guild then has one row.
C26_FirstAccessReturnsDefaults ==
    \A t \in GsTasks :
        (gs_first[t] /\ gs_pc[t] = "idle") =>
            /\ gs_result[t] = <<"returned", default_star_threshold>>
            /\ gs_rows[gs_guild[t]] # None

(***************************************************************************)
(* TempHideCog: /temphide posts the ROT13 text with a RevealView and       *)
(* stores the original; RevealView.reveal_button.  Commands are those      *)
(* within the word limit and outside the user's cooldown.                  *)
(***************************************************************************)
MaxHidden == 2
MaxHideUsers == 2
MaxClickTasks == 2
MaxClicks == 3

TmMessages == 1 .. MaxHidden
TmUsers == 1 .. MaxHideUsers
TmTasks == 1 .. MaxClickTasks
Letters == <<"a", "b", "c", "d", "e", "f", "g", "h", "i", "j", "k", "l", "m",
             "n", "o", "p", "q", "r", "s", "t", "u", "v", "w", "x", "y", "z">>
HiddenTexts == {<<"h", "i">>, <<"o", "k", "!">>}

IsLetter(c) == \E i \in 1 .. 26 : Letters[i] = c
LetterIndex(c) == CHOOSE i \in 1 .. 26 : Letters[i] = c
\* codecs.encode(message_text, 'rot13')
Rot13(text) ==
    [i \in 1 .. Len(text) |->
        IF IsLetter(text[i])
        THEN Letters[((LetterIndex(text[i]) - 1 + 13) % 26) + 1]
        ELSE text[i]]

TmIdle ==
    /\ tm_posts = [m \in TmMessages |-> None]
    /\ tm_rows = [m \in TmMessages |-> None]
    /\ tm_views = [m \in TmMessages |-> 0]
    /\ tm_unstored = {}
    /\ tm_pc = [t \in TmTasks |-> "off"]
    /\ tm_click = [t \in TmTasks |-> None]
    /\ tm_data = [t \in TmTasks |-> None]
    /\ tm_result = [t \in TmTasks |-> None]
    /\ tm_clicks = 0

\* after cog_load: no hidden message yet
TmInit ==
    /\ tm_posts = [m \in TmMessages |-> None]
    /\ tm_rows = [m \in TmMessages |-> None]
    /\ tm_views = [m \in TmMessages |-> 0]
    /\ tm_unstored = {}
    /\ tm_pc = [t \in TmTasks |-> "idle"]
    /\ tm_click = [t \in TmTasks |-> None]
    /\ tm_data = [t \in TmTasks |-> None]
    /\ tm_result = [t \in TmTasks |-> None]
    /\ tm_clicks = 0

TmRunning == \E t \in TmTasks : tm_pc[t] # "off"
Posted == {m \in TmMessages : tm_posts[m] # None}
NewMessageId == Cardinality(Posted) + 1

\* handle_temphide up to store_message: the message `name: rot13` is sent
\* with view = RevealView(self, 0) and view.message_id = sent_message.id
TmHide(u, text) ==
    /\ TmRunning
    /\ NewMessageId \in TmMessages
    /\ LET m == NewMessageId
       IN  /\ tm_posts' = [tm_posts EXCEPT ![m] =
                  <<[author |-> u, content |-> Rot13(text), hidden |-> text,
                     view |-> TRUE, live |-> TRUE]>>]
           /\ tm_views' = [tm_views EXCEPT ![m] = m]
           /\ tm_unstored' = tm_unstored \cup {m}
    /\ UNCHANGED <<tm_rows, tm_pc, tm_click, tm_data, tm_result, tm_clicks>>
    /\ UNCHANGED notTm

\* store_message(user.id, message_text, sent_message.id, current_time)
TmStore(m) ==
    /\ m \in tm_unstored
    /\ tm_unstored' = tm_unstored \ {m}
    /\ tm_rows' = [tm_rows EXCEPT ![m] = <<tm_posts[m][1].author, tm_posts[m][1].hidden>>]
    /\ UNCHANGED <<tm_posts, tm_views, tm_pc, tm_click, tm_data, tm_result, tm_clicks>>
    /\ UNCHANGED notTm

\* the process ends and the cog is loaded again: the views of the sent
\* messages are gone and `self.bot.add_view(RevealView(self, 0))` answers
\* the clicks on every message
TmRestart ==
    /\ TmRunning
    /\ Posted # {}
    /\ tm_views' = [m \in TmMessages |-> 0]
    /\ tm_unstored' = {}
    /\ tm_pc' = [t \in TmTasks |-> "idle"]
    /\ tm_click' = [t \in TmTasks |-> None]
    /\ tm_data' = [t \in TmTasks |-> None]
    /\ tm_result' = [t \in TmTasks |-> None]
    /\ UNCHANGED <<tm_posts, tm_rows, tm_clicks>>
    /\ UNCHANGED notTm

\* a moderator deletes the posted message
TmRemove(m) ==
    /\ tm_posts[m] # None
    /\ tm_posts[m][1].live
    /\ tm_posts' = [tm_posts EXCEPT ![m] = <<[tm_posts[m][1] EXCEPT !.live = FALSE]>>]
    /\ UNCHANGED <<tm_rows, tm_views, tm_unstored, tm_pc, tm_click, tm_data, tm_result,
                   tm_clicks>>
    /\ UNCHANGED notTm

\* get_message(self.message_id): SELECT user_id, hidden_text
GetMessage(message_id) ==
    IF message_id \in TmMessages THEN tm_rows[message_id] ELSE None

\* reveal_button up to `await interaction.response.defer()`
TmClick(t, u, m) ==
    /\ tm_pc[t] = "idle"
    /\ tm_clicks < MaxClicks
    /\ tm_posts[m] # None
    /\ tm_posts[m][1].live
    /\ tm_posts[m][1].view
    /\ tm_clicks' = tm_clicks + 1
    /\ tm_click' = [tm_click EXCEPT ![t] = <<u, m, tm_rows[m] # None>>]
    /\ LET message_data == GetMessage(tm_views[m])
       IN  IF message_data = None
           THEN /\ tm_result' = [tm_result EXCEPT ![t] = "no_message"]
                /\ UNCHANGED <<tm_pc, tm_data>>
           ELSE IF u # message_data[1]
           THEN /\ tm_result' = [tm_result EXCEPT ![t] = "not_yours"]
                /\ UNCHANGED <<tm_pc, tm_data>>
           ELSE /\ tm_result' = [tm_result EXCEPT ![t] = None]
                /\ tm_pc' = [tm_pc EXCEPT ![t] = "edit"]
                /\ tm_data' = [tm_data EXCEPT ![t] = message_data]
    /\ UNCHANGED <<tm_posts, tm_rows, tm_views, tm_unstored>>
    /\ UNCHANGED notTm

\* interaction.message.edit(content = f"{name}: {hidden_text}", view = None);
\* accepted: the platform carries out the edit of a message that exists
TmEdit(t, accepted) ==
    /\ tm_pc[t] = "edit"
    /\ LET m == tm_click[t][2]
           post == tm_posts[m][1]
       IN  IF ~post.live
           THEN /\ tm_pc' = [tm_pc EXCEPT ![t] = "delete"]
                /\ tm_result' = [tm_result EXCEPT ![t] = "not_found"]
                /\ UNCHANGED tm_posts
           ELSE IF accepted
           THEN /\ tm_posts' = [tm_posts EXCEPT ![m] =
                       <<[post EXCEPT !.content = tm_data[t][2], !.view = FALSE]>>]
                /\ tm_pc' = [tm_pc EXCEPT ![t] = "delete"]
                /\ tm_result' = [tm_result EXCEPT ![t] = "revealed"]
           ELSE /\ tm_pc' = [tm_pc EXCEPT ![t] = "idle"]
                /\ tm_result' = [tm_result EXCEPT ![t] = "failed"]
                /\ UNCHANGED tm_posts
    /\ UNCHANGED <<tm_rows, tm_views, tm_unstored, tm_click, tm_data, tm_clicks>>
    /\ UNCHANGED notTm

\* delete_message(self.message_id)
TmDelete(t) ==
    /\ tm_pc[t] = "delete"
    /\ tm_rows' = [tm_rows EXCEPT ![tm_click[t][2]] = None]
    /\ tm_pc' = [tm_pc EXCEPT ![t] = "idle"]
    /\ UNCHANGED <<tm_posts, tm_views, tm_unstored, tm_click, tm_data, tm_result, tm_clicks>>
    /\ UNCHANGED notTm

TmTaskStep(t) ==
    \/ \E u \in TmUsers, m \in TmMessages : TmClick(t, u, m)
    \/ \E accepted \in BOOLEAN : TmEdit(t, accepted)
    \/ TmDelete(t)

TmNext ==
    \/ \E u \in TmUsers, text \in HiddenTexts : TmHide(u, text)
    \/ \E m \in TmMessages : TmStore(m)
    \/ TmRestart
    \/ \E m \in TmMessages : TmRemove(m)
    \/ \E t \in TmTasks : TmTaskStep(t)

\* a click handler that has returned
C27_Ended(t) == tm_pc[t] = "idle" /\ tm_click[t] # None

\* C27: a Reveal click by a user other than the author never reaches the
\* edit or the deletion of the record; a click by the author on a message
\* whose record is stored, once its handler has returned and unless the
\* platform refused the edit, has put the original text in place of the
\* encoded one and deleted the record; a click on a message without a
\* record reports that the message no longer exists.
C27_OnlyTheAuthorReveals ==
    \A t \in TmTasks :
        /\ tm_pc[t] \in {"edit", "delete"} =>
               tm_click[t][1] = tm_posts[tm_click[t][2]][1].author
        /\ (C27_Ended(t) /\ tm_click[t][1] # tm_posts[tm_click[t][2]][1].author) =>
               tm_result[t] \in {"not_yours", "no_message"}
        /\ (/\ C27_Ended(t)
            /\ tm_click[t][1] = tm_posts[tm_click[t][2]][1].author
            /\ tm_click[t][3]
            /\ tm_result[t] \notin {"failed", "not_found"}) =>
               /\ tm_posts[tm_click[t][2]][1].content = tm_posts[tm_click[t][2]][1].hidden
               /\ tm_rows[tm_click[t][2]] = None
        /\ (C27_Ended(t) /\ ~tm_click[t][3]) => tm_result[t] = "no_message"

(***************************************************************************)
(* StickyMessages: on_message, sticky_monitor and update_sticky_message    *)
(* for one active panel in its channel.  Message ids are 1, 2, ...; a      *)
(* Discord call succeeds or fails as Discord decides.                      *)
(***************************************************************************)
MaxSent == 4
MaxRuns == 3

StIdle ==
    /\ st_live = {}
    /\ st_ids = 0
    /\ st_db = 0
    /\ st_cache = 0
    /\ st_pc = "off"
    /\ st_row = 0
    /\ st_new = 0
    /\ st_runs = <<>>

\* after cog_load: the panel is active with sticky message 1, which exists
\* or was deleted while the bot was away; _prime_active_cache read the row
StInit ==
    /\ st_live \in {{1}, {}}
    /\ st_ids = 1
    /\ st_db = 1
    /\ st_cache = 1
    /\ st_pc = "idle"
    /\ st_row = 0
    /\ st_new = 0
    /\ st_runs = <<>>

StQuiet == st_pc = "idle"

\* update_sticky_message is entered with panel_row as get_panel_by_id read
\* it; there is no await between the read's end and the fetch
StEnterUpdate ==
    /\ st_ids < MaxSent
    /\ Len(st_runs) < MaxRuns
    /\ st_row' = st_db
    /\ st_pc' = IF st_db # 0 THEN "fetch" ELSE "send"
    /\ st_runs' = Append(st_runs, [missing |-> st_live = {}, sent |-> 0,
                                   completed |-> FALSE, db |-> st_db, cache |-> st_cache])

\* update_sticky_message returns: what it sent, whether it ran to its end,
\* and the last_message_id that database and cache hold then
StReturn(sent, completed, db, cache) ==
    /\ st_runs' = [st_runs EXCEPT ![Len(st_runs)] =
                      [missing |-> @.missing, sent |-> sent, completed |-> completed,
                       db |-> db, cache |-> cache]]
    /\ st_pc' = "idle"
    /\ st_row' = 0
    /\ st_new' = 0

\* on_message of a qualifying member message: the cached panel, then
\* get_panel_by_id, then update_sticky_message(panel_row, channel)
StOnMessage ==
    /\ st_pc = "idle"
    /\ st_cache # 0
    /\ StEnterUpdate
    /\ UNCHANGED <<st_live, st_ids, st_db, st_cache, st_new>>
    /\ UNCHANGED notSt

\* sticky_monitor for the panel: fetch_message(panel.last_message_id) finds
\* the message ("found"), raises NotFound when it is gone ("missing"), or
\* Forbidden ("forbidden") or another error ("error")
StMonitor(outcome) ==
    /\ st_pc = "idle"
    /\ st_cache # 0
    /\ outcome \in (IF st_cache \in st_live THEN {"found"} ELSE {"missing"})
                      \cup {"forbidden", "error"}
    /\ CASE outcome = "missing" ->
                /\ StEnterUpdate
                /\ UNCHANGED st_cache
         [] outcome = "forbidden" ->
                /\ st_cache' = 0
                /\ st_runs' = <<>>
                /\ UNCHANGED <<st_pc, st_row>>
         [] OTHER -> UNCHANGED <<st_cache, st_pc, st_row, st_runs>>
    /\ UNCHANGED <<st_live, st_ids, st_db, st_new>>
    /\ UNCHANGED notSt

\* old_message.delete()
DeleteOldKeepsIt(live, id) == live
DeleteOld(live, id) == live \ {id}

\* fetch_message(last_message_id) and delete: done ("ok"), NotFound is
\* passed over ("missing"), Forbidden returns ("forbidden"), anything else
\* is caught by the outer handler ("error")
StFetchDelete(outcome) ==
    /\ st_pc = "fetch"
    /\ outcome \in (IF st_row \in st_live THEN {"ok"} ELSE {"missing"})
                      \cup {"forbidden", "error"}
    /\ IF outcome \in {"ok", "missing"}
       THEN /\ st_live' = IF outcome = "ok" THEN DeleteOld(st_live, st_row) ELSE st_live
            /\ st_pc' = "send"
            /\ UNCHANGED <<st_row, st_new, st_runs>>
       ELSE /\ StReturn(0, FALSE, st_db, st_cache)
            /\ UNCHANGED st_live
    /\ UNCHANGED <<st_ids, st_db, st_cache>>
    /\ UNCHANGED notSt

\* new_message = await channel.send(embed=embed)
StSend(ok) ==
    /\ st_pc = "send"
    /\ IF ok
       THEN /\ st_ids' = st_ids + 1
            /\ st_live' = st_live \cup {st_ids + 1}
            /\ st_new' = st_ids + 1
            /\ st_pc' = "db"
            /\ UNCHANGED <<st_row, st_runs>>
       ELSE /\ StReturn(0, FALSE, st_db, st_cache)
            /\ UNCHANGED <<st_ids, st_live>>
    /\ UNCHANGED <<st_db, st_cache>>
    /\ UNCHANGED notSt

\* UPDATE sticky_panels SET last_message_id = ? and commit, or the database
\* raises
StDbUpdate(ok) ==
    /\ st_pc = "db"
    /\ IF ok
       THEN /\ st_db' = st_new
            /\ st_pc' = "cache"
            /\ UNCHANGED <<st_row, st_new, st_runs>>
       ELSE /\ StReturn(st_new, FALSE, st_db, st_cache)
            /\ UNCHANGED st_db
    /\ UNCHANGED <<st_live, st_ids, st_cache>>
    /\ UNCHANGED notSt

\* _set_active_panel(channel.id, ActivePanel(..., last_message_id=new_message.id))
StSetCache ==
    /\ st_pc = "cache"
    /\ st_cache' = st_new
    /\ StReturn(st_new, TRUE, st_db, st_new)
    /\ UNCHANGED <<st_live, st_ids, st_db>>
    /\ UNCHANGED notSt

\* somebody deletes the sticky message in the channel, between two handlers;
\* the calls after it are a new succession
StExternalDelete ==
    /\ StQuiet
    /\ st_db \in st_live
    /\ st_live' = st_live \ {st_db}
    /\ st_runs' = <<>>
    /\ UNCHANGED <<st_ids, st_db, st_cache, st_pc, st_row, st_new>>
    /\ UNCHANGED notSt

StStep ==
    \/ StOnMessage
    \/ \E outcome \in {"found", "missing", "forbidden", "error"} : StMonitor(outcome)
    \/ \E outcome \in {"ok", "missing", "forbidden", "error"} : StFetchDelete(outcome)
    \/ \E ok \in BOOLEAN : StSend(ok) \/ StDbUpdate(ok)
    \/ StSetCache

StNext == StStep \/ StExternalDelete

(***************************************************************************)
(* Claims about the sticky repair.                                         *)
(***************************************************************************)
\* the last two calls of update_sticky_message ran in succession, each to its
\* end, and the first found the channel without a live message of the panel
C4_RepairedTwice ==
    /\ StQuiet
    /\ Len(st_runs) >= 2
    /\ st_runs[Len(st_runs) - 1].missing
    /\ st_runs[Len(st_runs) - 1].completed
    /\ st_runs[Len(st_runs)].completed

C4_First == st_runs[Len(st_runs) - 1]
C4_Second == st_runs[Len(st_runs)]

MaxStickySent == 3
MaxStickyHandlers == 2
MaxStickyRuns == 2

SkTasks == 1 .. MaxStickyHandlers
SkIdleTask == [kind |-> "none", pc |-> "idle", panel |-> 0, row |-> 0, new |-> 0]

SkIdle ==
    /\ sk_place = "ok"
    /\ sk_live = {}
    /\ sk_ids = 0
    /\ sk_db = None
    /\ sk_cache = None
    /\ sk_task = [t \in SkTasks |-> [SkIdleTask EXCEPT !.pc = "off"]]
    /\ sk_deleting = FALSE
    /\ sk_tick = None
    /\ sk_clean = TRUE
    /\ sk_runs = 0

\* after cog_load: the panel is active with sticky message 1, which exists
\* or was deleted while the bot was away; _prime_active_cache read the row
SkInit ==
    /\ sk_place = "ok"
    /\ sk_live \in {{1}, {}}
    /\ sk_ids = 1
    /\ sk_db = <<1>>
    /\ sk_cache = <<1>>
    /\ sk_task = [t \in SkTasks |-> SkIdleTask]
    /\ sk_deleting = FALSE
    /\ sk_tick = None
    /\ sk_clean = (sk_live # {})
    /\ sk_runs = 0

SkRunning == \E t \in SkTasks : sk_task[t].pc # "off"
SkQuiet == \A t \in SkTasks : sk_task[t].pc = "idle"

\* self._active_panels.pop(channel_id, None)
RemoveActivePanelKeepsIt(cache) == cache
RemoveActivePanel(cache) == None

\* the record of the monitor's check of the panel: what it met and what
\* there was before; a step of anything else makes it None
TickRecord(t) ==
    [task |-> t, place |-> sk_place, present |-> sk_cache[1] \in sk_live,
     row |-> sk_db # None, live |-> sk_live, db |-> sk_db, cache |-> sk_cache,
     ids |-> sk_ids, failed |-> FALSE, ended |-> FALSE]

\* the step of handler t as the tick record sees it
TickAfter(t, failed, ended) ==
    IF sk_tick # None /\ sk_tick[1].task = t
    THEN <<[sk_tick[1] EXCEPT !.failed = @ \/ failed, !.ended = ended]>>
    ELSE None

\* the handler returns
SkReturn(t, failed) ==
    /\ sk_task' = [sk_task EXCEPT ![t] = SkIdleTask]
    /\ sk_tick' = TickAfter(t, failed, TRUE)
    /\ sk_clean' = (sk_clean /\ ~failed)

\* the handler goes on at pc
SkGoto(t, pc) ==
    /\ sk_task' = [sk_task EXCEPT ![t].pc = pc]
    /\ sk_tick' = TickAfter(t, FALSE, FALSE)
    /\ UNCHANGED sk_clean

\* sticky_monitor: active_snapshot = list(self._active_panels.items()); one
\* run of the loop at a time
SkMonitor(t) ==
    /\ sk_task[t].pc = "idle"
    /\ sk_runs < MaxStickyRuns
    /\ sk_cache # None
    /\ \A u \in SkTasks : sk_task[u].kind # "monitor"
    /\ sk_task' = [sk_task EXCEPT ![t] =
           [SkIdleTask EXCEPT !.kind = "monitor", !.pc = "channel", !.panel = sk_cache[1]]]
    /\ sk_tick' = IF SkQuiet THEN <<TickRecord(t)>> ELSE None
    /\ sk_runs' = sk_runs + 1
    /\ UNCHANGED <<sk_place, sk_live, sk_ids, sk_db, sk_cache, sk_deleting, sk_clean>>
    /\ UNCHANGED notSk

\* guild = self.bot.get_guild(...); channel = guild.get_channel(channel_id)
SkChannel(t) ==
    /\ sk_task[t].pc = "channel"
    /\ CASE sk_place = "no_guild" ->
                /\ SkReturn(t, FALSE)
                /\ UNCHANGED sk_cache
         [] sk_place = "no_channel" ->
                /\ sk_cache' = RemoveActivePanel(sk_cache)
                /\ SkReturn(t, FALSE)
         [] OTHER ->
                /\ SkGoto(t, "fetch")
                /\ UNCHANGED sk_cache
    /\ UNCHANGED <<sk_place, sk_live, sk_ids, sk_db, sk_deleting, sk_runs>>
    /\ UNCHANGED notSk

\* what fetch_message(id) can do: the message, NotFound when it (or the
\* channel) is gone, Forbidden or another error
FetchResults(id) ==
    (IF sk_place = "ok" /\ id \in sk_live THEN {"found"} ELSE {"missing"})
        \cup {"forbidden", "error"}

\* await channel.fetch_message(panel.last_message_id) and its handlers
SkFetch(t, outcome) ==
    /\ sk_task[t].pc = "fetch"
    /\ outcome \in FetchResults(sk_task[t].panel)
    /\ CASE outcome = "found" ->
                /\ SkReturn(t, FALSE)
                /\ UNCHANGED sk_cache
         [] outcome = "missing" ->
                /\ SkGoto(t, "row")
                /\ UNCHANGED sk_cache
         [] outcome = "forbidden" ->
                /\ sk_cache' = RemoveActivePanel(sk_cache)
                /\ SkReturn(t, TRUE)
         [] OTHER ->
                /\ SkReturn(t, TRUE)
                /\ UNCHANGED sk_cache
    /\ UNCHANGED <<sk_place, sk_live, sk_ids, sk_db, sk_deleting, sk_runs>>
    /\ UNCHANGED notSk

\* on_message of a member's message that passes the panel's filters, up to
\* get_panel_by_id
SkOnMessage(t) ==
    /\ sk_task[t].pc = "idle"
    /\ sk_runs < MaxStickyRuns
    /\ sk_place = "ok"
    /\ sk_cache # None
    /\ sk_task' = [sk_task EXCEPT ![t] =
           [SkIdleTask EXCEPT !.kind = "message", !.pc = "row", !.panel = sk_cache[1]]]
    /\ sk_tick' = None
    /\ sk_runs' = sk_runs + 1
    /\ UNCHANGED <<sk_place, sk_live, sk_ids, sk_db, sk_cache, sk_deleting, sk_clean>>
    /\ UNCHANGED notSk

\* panel_row = await self.get_panel_by_id(...); without a row the panel
\* leaves the cache, with one update_sticky_message(panel_row, channel)
\* starts
SkGetRow(t, ok) ==
    /\ sk_task[t].pc = "row"
    /\ IF ~ok
       THEN /\ SkReturn(t, TRUE)
            /\ UNCHANGED sk_cache
       ELSE IF sk_db = None
       THEN /\ sk_cache' = RemoveActivePanel(sk_cache)
            /\ SkReturn(t, FALSE)
       ELSE /\ sk_task' = [sk_task EXCEPT ![t].row = sk_db[1],
                                          ![t].pc = IF sk_db[1] # 0 THEN "old" ELSE "send"]
            /\ sk_tick' = TickAfter(t, FALSE, FALSE)
            /\ UNCHANGED <<sk_cache, sk_clean>>
    /\ UNCHANGED <<sk_place, sk_live, sk_ids, sk_db, sk_deleting, sk_runs>>
    /\ UNCHANGED notSk

\* old_message = await channel.fetch_message(last_message_id);
\* await old_message.delete(): NotFound is passed over, Forbidden returns
SkDeleteOld(t, outcome) ==
    /\ sk_task[t].pc = "old"
    /\ outcome \in FetchResults(sk_task[t].row)
    /\ IF outcome \in {"found", "missing"}
       THEN /\ sk_live' = IF outcome = "found" THEN DeleteOld(sk_live, sk_task[t].row)
                          ELSE sk_live
            /\ SkGoto(t, "send")
       ELSE /\ SkReturn(t, TRUE)
            /\ UNCHANGED sk_live
    /\ UNCHANGED <<sk_place, sk_ids, sk_db, sk_cache, sk_deleting, sk_runs>>
    /\ UNCHANGED notSk

\* new_message = await channel.send(embed=embed)
SkSend(t, ok) ==
    /\ sk_task[t].pc = "send"
    /\ ok => sk_place = "ok" /\ sk_ids < MaxStickySent
    /\ IF ok
       THEN /\ sk_ids' = sk_ids + 1
            /\ sk_live' = sk_live \cup {sk_ids + 1}
            /\ sk_task' = [sk_task EXCEPT ![t].new = sk_ids + 1, ![t].pc = "db"]
            /\ sk_tick' = TickAfter(t, FALSE, FALSE)
            /\ UNCHANGED sk_clean
       ELSE /\ SkReturn(t, TRUE)
            /\ UNCHANGED <<sk_ids, sk_live>>
    /\ UNCHANGED <<sk_place, sk_db, sk_cache, sk_deleting, sk_runs>>
    /\ UNCHANGED notSk

\* UPDATE sticky_panels SET last_message_id = ? WHERE ... panel_id = ?
SkDbUpdate(t, ok) ==
    /\ sk_task[t].pc = "db"
    /\ IF ok
       THEN /\ sk_db' = IF sk_db = None THEN None ELSE <<sk_task[t].new>>
            /\ SkGoto(t, "cache")
       ELSE /\ SkReturn(t, TRUE)
            /\ UNCHANGED sk_db
    /\ UNCHANGED <<sk_place, sk_live, sk_ids, sk_cache, sk_deleting, sk_runs>>
    /\ UNCHANGED notSk

\* _set_active_panel(channel.id, ActivePanel(..., last_message_id=new_message.id))
SkSetCache(t) ==
    /\ sk_task[t].pc = "cache"
    /\ sk_cache' = <<sk_task[t].new>>
    /\ SkReturn(t, FALSE)
    /\ UNCHANGED <<sk_place, sk_live, sk_ids, sk_db, sk_deleting, sk_runs>>
    /\ UNCHANGED notSk

\* somebody deletes the sticky message in the channel
SkExternalDelete(id) ==
    /\ SkRunning
    /\ sk_place = "ok"
    /\ sk_cache # None
    /\ id \in sk_live
    /\ sk_live' = sk_live \ {id}
    /\ sk_tick' = None
    /\ sk_clean' = FALSE
    /\ UNCHANGED <<sk_place, sk_ids, sk_db, sk_cache, sk_task, sk_deleting, sk_runs>>
    /\ UNCHANGED notSk

\* the channel is deleted, or the bot leaves the guild
SkLeave(place) ==
    /\ SkRunning
    /\ sk_place = "ok"
    /\ sk_cache # None
    /\ sk_place' = place
    /\ sk_live' = {}
    /\ sk_tick' = None
    /\ sk_clean' = FALSE
    /\ UNCHANGED <<sk_ids, sk_db, sk_cache, sk_task, sk_deleting, sk_runs>>
    /\ UNCHANGED notSk

\* /sticky delete up to the commit of DELETE FROM sticky_panels: the
\* recorded message is deleted, then the row
SkPanelDelete ==
    /\ SkRunning
    /\ sk_place = "ok"
    /\ sk_db # None
    /\ ~sk_deleting
    /\ sk_live' = IF sk_db[1] # 0 THEN DeleteOld(sk_live, sk_db[1]) ELSE sk_live
    /\ sk_db' = None
    /\ sk_deleting' = TRUE
    /\ sk_tick' = None
    /\ sk_clean' = FALSE
    /\ UNCHANGED <<sk_place, sk_ids, sk_cache, sk_task, sk_runs>>
    /\ UNCHANGED notSk

\* /sticky delete: await self._remove_active_panel(channel_id)
SkPanelDeleted ==
    /\ sk_deleting
    /\ sk_deleting' = FALSE
    /\ sk_cache' = RemoveActivePanel(sk_cache)
    /\ sk_tick' = None
    /\ UNCHANGED <<sk_place, sk_live, sk_ids, sk_db, sk_task, sk_clean, sk_runs>>
    /\ UNCHANGED notSk

SkTaskStep(t) ==
    \/ SkMonitor(t)
    \/ SkChannel(t)
    \/ \E outcome \in {"found", "missing", "forbidden", "error"} : SkFetch(t, outcome)
    \/ SkOnMessage(t)
    \/ \E ok \in BOOLEAN : SkGetRow(t, ok)
    \/ \E outcome \in {"found", "missing", "forbidden", "error"} : SkDeleteOld(t, outcome)
    \/ \E ok \in BOOLEAN : SkSend(t, ok)
    \/ \E ok \in BOOLEAN : SkDbUpdate(t, ok)
    \/ SkSetCache(t)

SkNext ==
    \/ \E t \in SkTasks : SkTaskStep(t)
    \/ \E id \in 1 .. MaxStickySent : SkExternalDelete(id)
    \/ \E place \in {"no_channel", "no_guild"} : SkLeave(place)
    \/ SkPanelDelete
    \/ SkPanelDeleted

\* a sticky_monitor check of the panel has run from the snapshot to its end
\* with nothing else happening meanwhile and without a failing call
C28_Checked == sk_tick # None /\ sk_tick[1].ended /\ ~sk_tick[1].failed

C28_WitnessKept == C28_Checked /\ sk_tick[1].place = "ok" /\ sk_tick[1].present
C28_WitnessChannel == C28_Checked /\ sk_tick[1].place = "no_channel" /\ sk_cache = None
C28_WitnessRow ==
    C28_Checked /\ sk_tick[1].place = "ok" /\ ~sk_tick[1].row /\ sk_cache = None


\* C29: whenever no handler of the panel is in flight (no call having
\* failed and nobody else having deleted a message), an active panel has
\* exactly one live sticky message in its channel, and database and cache
\* record it as last_message_id, however the on_message handlers and the
\* sticky_monitor check were interleaved.
C29_OneLiveSticky ==
    (SkQuiet /\ sk_clean /\ sk_cache # None /\ sk_place = "ok") =>
        /\ sk_live = {sk_cache[1]}
        /\ sk_db = sk_cache

(***************************************************************************)
(* StarboardCog: /lfg posts and on_reaction_add for star reactions of      *)
(* members.  get_guild_settings suspends only when the settings are not    *)
(* cached; reaction.users() and channel.send() always suspend.             *)
(***************************************************************************)
default_lfg_threshold == 4
MaxLfgPosts == 2
MaxLfgReactions == 5
MaxLfgHandlers == 2

LfPosts == 1 .. MaxLfgPosts
LfTasks == 1 .. MaxLfgHandlers
LfIdleTask == [pc |-> "idle", message |-> 0]

LfIdle ==
    /\ lf_posted = {}
    /\ lf_creators = {}
    /\ lf_count = [p \in LfPosts |-> 0]
    /\ lf_pings = [p \in LfPosts |-> 0]
    /\ lf_task = [t \in LfTasks |-> [LfIdleTask EXCEPT !.pc = "off"]]
    /\ lf_raised = FALSE

\* after cog_load: no LFG post
LfInit ==
    /\ lf_posted = {}
    /\ lf_creators = {}
    /\ lf_count = [p \in LfPosts |-> 0]
    /\ lf_pings = [p \in LfPosts |-> 0]
    /\ lf_task = [t \in LfTasks |-> LfIdleTask]
    /\ lf_raised = FALSE

LfRunning == \E t \in LfTasks : lf_task[t].pc # "off"

\* /lfg: the post is sent, the bot adds its star, and
\* self.lfg_creators[msg.id] = interaction.user.id
LfCreate(p) ==
    /\ LfRunning
    /\ p \notin lf_posted
    /\ lf_posted' = lf_posted \cup {p}
    /\ lf_creators' = lf_creators \cup {p}
    /\ UNCHANGED <<lf_count, lf_pings, lf_task, lf_raised>>
    /\ UNCHANGED notLf

\* reaction_count >= settings["lfg_threshold"]
ThresholdReached(reaction_count, threshold) == reaction_count >= threshold

\* creator_id = self.lfg_creators[message.id] and the count test: where the
\* handler goes on
AfterSettings(p, creators, reaction_count) ==
    IF p \notin creators THEN "raise"
    ELSE IF ThresholdReached(reaction_count, default_lfg_threshold) THEN "users"
    ELSE "idle"

\* a member adds a star to post p and on_reaction_add runs up to its first
\* suspension; cached: get_guild_settings returns from its cache
LfReact(t, p, cached) ==
    /\ lf_task[t].pc = "idle"
    /\ p \in lf_posted
    /\ lf_count[p] < MaxLfgReactions
    /\ lf_count' = [lf_count EXCEPT ![p] = @ + 1]
    /\ IF p \notin lf_creators
       THEN UNCHANGED lf_task
       ELSE IF ~cached
       THEN lf_task' = [lf_task EXCEPT ![t] = [pc |-> "settings", message |-> p]]
       ELSE lf_task' = [lf_task EXCEPT ![t] =
                [pc |-> AfterSettings(p, lf_creators, lf_count[p] + 1),
                 message |-> IF AfterSettings(p, lf_creators, lf_count[p] + 1) = "idle"
                             THEN 0 ELSE p]]
    /\ UNCHANGED <<lf_posted, lf_creators, lf_pings, lf_raised>>
    /\ UNCHANGED notLf

\* get_guild_settings has returned from the database
LfSettings(t) ==
    /\ lf_task[t].pc = "settings"
    /\ LET p == lf_task[t].message
           pc == AfterSettings(p, lf_creators, lf_count[p])
       IN  /\ lf_task' = [lf_task EXCEPT ![t] =
                  IF pc = "users" THEN [pc |-> "users", message |-> p] ELSE LfIdleTask]
           /\ lf_raised' = (lf_raised \/ pc = "raise")
    /\ UNCHANGED <<lf_posted, lf_creators, lf_count, lf_pings>>
    /\ UNCHANGED notLf

\* reactors = [u async for u in reaction.users() if not u.bot]
LfUsers(t) ==
    /\ lf_task[t].pc = "users"
    /\ lf_task' = [lf_task EXCEPT ![t].pc = "send"]
    /\ UNCHANGED <<lf_posted, lf_creators, lf_count, lf_pings, lf_raised>>
    /\ UNCHANGED notLf

\* await message.channel.send(content=ping_content, embed=embed, ...), or
\* the send raises
LfSend(t, ok) ==
    /\ lf_task[t].pc = "send"
    /\ IF ok
       THEN /\ lf_pings' = [lf_pings EXCEPT ![lf_task[t].message] = @ + 1]
            /\ lf_task' = [lf_task EXCEPT ![t].pc = "pop"]
            /\ UNCHANGED lf_raised
       ELSE /\ lf_task' = [lf_task EXCEPT ![t] = LfIdleTask]
            /\ lf_raised' = TRUE
            /\ UNCHANGED lf_pings
    /\ UNCHANGED <<lf_posted, lf_creators, lf_count>>
    /\ UNCHANGED notLf

\* self.lfg_creators.pop(message.id, None)
LfPop(t) ==
    /\ lf_task[t].pc = "pop"
    /\ lf_creators' = lf_creators \ {lf_task[t].message}
    /\ lf_task' = [lf_task EXCEPT ![t] = LfIdleTask]
    /\ UNCHANGED <<lf_posted, lf_count, lf_pings, lf_raised>>
    /\ UNCHANGED notLf

LfTaskStep(t) ==
    \/ \E p \in LfPosts, cached \in BOOLEAN : LfReact(t, p, cached)
    \/ LfSettings(t)
    \/ LfUsers(t)
    \/ \E ok \in BOOLEAN : LfSend(t, ok)
    \/ LfPop(t)

LfNext ==
    \/ \E p \in LfPosts : LfCreate(p)
    \/ \E t \in LfTasks : LfTaskStep(t)

\* C32: an LFG post gets at most one 'LFG Group Ready!' ping, and a post
\* whose ping has been sent and whose handler has returned is no longer in
\* lfg_creators, however the handlers of concurrent reactions interleave.
C32_AtMostOnePing ==
    \A p \in LfPosts :
        /\ lf_pings[p] <= 1
        /\ (lf_pings[p] > 0 /\ \A t \in LfTasks : lf_task[t].message # p) =>
               p \notin lf_creators

(***************************************************************************)
(* ScheduledMessages: /scheduledmessage panel setup and delete, start and  *)
(* stop, their autocompletes with _autocomplete_cache, and                 *)
(* send_scheduled_messages, for the messages of one guild.  A command      *)
(* awaits between its SELECT and its UPDATE or DELETE; the loop awaits at  *)
(* every channel.send.                                                     *)
(***************************************************************************)
MaxCommandMessages == 2

SxMessages == 1 .. MaxCommandMessages
\* only_active of the three autocompletes: stop, start, delete
OnlyActive == {"true", "false", "none"}
CommandKinds == {"start", "stop", "delete"}

SxIdle ==
    /\ sx_rows = [m \in SxMessages |-> None]
    /\ sx_cmd = None
    /\ sx_halted = {}
    /\ sx_pc = "off"
    /\ sx_todo = <<>>
    /\ sx_updates = {}
    /\ sx_late = {}
    /\ sx_cache = [k \in OnlyActive |-> None]
    /\ sx_offer = None

\* after cog_load: the table is empty, the cache too, the loop is started
SxInit ==
    /\ sx_rows = [m \in SxMessages |-> None]
    /\ sx_cmd = None
    /\ sx_halted = {}
    /\ sx_pc = "wait"
    /\ sx_todo = <<>>
    /\ sx_updates = {}
    /\ sx_late = {}
    /\ sx_cache = [k \in OnlyActive |-> None]
    /\ sx_offer = None

\* on_submit of the setup modal: INSERT ... is_active = 1, next_send_time
\* in the future
SxCreate(m) ==
    /\ sx_pc # "off"
    /\ sx_rows[m] = None
    /\ sx_rows' = [sx_rows EXCEPT ![m] = <<[is_active |-> TRUE, due |-> FALSE]>>]
    /\ sx_halted' = sx_halted \ {m}
    /\ sx_offer' = None
    /\ UNCHANGED <<sx_cmd, sx_pc, sx_todo, sx_updates, sx_late, sx_cache>>
    /\ UNCHANGED notSx

\* time reaches next_send_time
SxBecomesDue(m) ==
    /\ sx_rows[m] # None
    /\ ~sx_rows[m][1].due
    /\ sx_rows' = [sx_rows EXCEPT ![m] = <<[@[1] EXCEPT !.due = TRUE]>>]
    /\ sx_offer' = None
    /\ UNCHANGED <<sx_cmd, sx_halted, sx_pc, sx_todo, sx_updates, sx_late, sx_cache>>
    /\ UNCHANGED notSx

\* the SELECT of start (is_active = 0), stop (is_active = 1) and delete
SelectFinds(kind, row) ==
    /\ row # None
    /\ kind = "start" => ~row[1].is_active
    /\ kind = "stop" => row[1].is_active

\* the command's first part: without a row it answers with its error
SxCommand(kind, m) ==
    /\ sx_pc # "off"
    /\ sx_cmd = None
    /\ SelectFinds(kind, sx_rows[m])
    /\ sx_cmd' = <<kind, m>>
    /\ sx_offer' = None
    /\ UNCHANGED <<sx_rows, sx_halted, sx_pc, sx_todo, sx_updates, sx_late, sx_cache>>
    /\ UNCHANGED notSx

\* the UPDATE or DELETE ... WHERE guild_id = ? AND message_id = ?
CommandApplied(kind, row) ==
    IF row = None \/ kind = "delete" THEN None
    ELSE IF kind = "stop" THEN <<[row[1] EXCEPT !.is_active = FALSE]>>
    ELSE <<[is_active |-> TRUE, due |-> FALSE]>>

\* the command's statement and commit
SxCommit ==
    /\ sx_cmd # None
    /\ LET kind == sx_cmd[1]
           m    == sx_cmd[2]
       IN  /\ sx_rows' = [sx_rows EXCEPT ![m] = CommandApplied(kind, @)]
           /\ sx_halted' = IF kind = "start" THEN sx_halted \ {m} ELSE sx_halted \cup {m}
    /\ sx_cmd' = None
    /\ sx_offer' = None
    /\ UNCHANGED <<sx_pc, sx_todo, sx_updates, sx_late, sx_cache>>
    /\ UNCHANGED notSx

\* SELECT message_id, name ... [AND is_active = ?] ORDER BY message_id
AutocompleteQuery(rows, only_active) ==
    {m \in SxMessages :
        /\ rows[m] # None
        /\ only_active = "true" => rows[m][1].is_active
        /\ only_active = "false" => ~rows[m][1].is_active}

\* _scheduled_message_autocomplete with an empty `current`
SxAutocomplete(only_active) ==
    /\ sx_pc # "off"
    /\ LET cached == sx_cache[only_active]
           rows == IF cached # None THEN cached[1]
                   ELSE AutocompleteQuery(sx_rows, only_active)
       IN  /\ sx_cache' = [sx_cache EXCEPT ![only_active] = <<rows>>]
           /\ sx_offer' = <<only_active, rows>>
    /\ UNCHANGED <<sx_rows, sx_cmd, sx_halted, sx_pc, sx_todo, sx_updates, sx_late>>
    /\ UNCHANGED notSx

\* SELECT ... WHERE next_send_time <= ? AND is_active = 1, in message order
RECURSIVE SxDueMessages(_, _)
SxDueMessages(rows, m) ==
    IF m > MaxCommandMessages THEN <<>>
    ELSE IF rows[m] # None /\ rows[m][1].is_active /\ rows[m][1].due
         THEN <<m>> \o SxDueMessages(rows, m + 1)
         ELSE SxDueMessages(rows, m + 1)

\* an iteration of send_scheduled_messages up to the first send
SxLoopStart ==
    /\ sx_pc = "wait"
    /\ sx_todo' = SxDueMessages(sx_rows, 1)
    /\ sx_todo' # <<>>
    /\ sx_updates' = {}
    /\ sx_pc' = "send"
    /\ sx_offer' = None
    /\ UNCHANGED <<sx_rows, sx_cmd, sx_halted, sx_late, sx_cache>>
    /\ UNCHANGED notSx

\* one message of messages_to_send: channel.send delivers it, or the send
\* raises or guild or channel is not found
SxSend(sent) ==
    /\ sx_pc = "send"
    /\ LET m == Head(sx_todo)
       IN  /\ sx_updates' = IF sent THEN sx_updates \cup {m} ELSE sx_updates
           /\ sx_late' = IF sent /\ m \in sx_halted THEN sx_late \cup {m} ELSE sx_late
    /\ sx_todo' = Tail(sx_todo)
    /\ sx_pc' = IF sx_todo' # <<>> THEN "send"
                ELSE IF sx_updates' # {} THEN "update" ELSE "wait"
    /\ sx_offer' = None
    /\ UNCHANGED <<sx_rows, sx_cmd, sx_halted, sx_cache>>
    /\ UNCHANGED notSx

\* executemany UPDATE scheduled_messages SET next_send_time = ?, commit
SxLoopUpdate ==
    /\ sx_pc = "update"
    /\ sx_rows' = [m \in SxMessages |->
                      IF m \in sx_updates /\ sx_rows[m] # None
                      THEN <<[sx_rows[m][1] EXCEPT !.due = FALSE]>> ELSE sx_rows[m]]
    /\ sx_updates' = {}
    /\ sx_pc' = "wait"
    /\ sx_offer' = None
    /\ UNCHANGED <<sx_cmd, sx_halted, sx_todo, sx_late, sx_cache>>
    /\ UNCHANGED notSx

\* the commands and the send loop
SxLoopNext ==
    \/ \E m \in SxMessages : SxCreate(m) \/ SxBecomesDue(m)
    \/ \E kind \in CommandKinds, m \in SxMessages : SxCommand(kind, m)
    \/ SxCommit
    \/ SxLoopStart
    \/ \E sent \in BOOLEAN : SxSend(sent)
    \/ SxLoopUpdate

\* the commands and their autocompletes
SxAutocompleteNext ==
    \/ \E m \in SxMessages : SxCreate(m)
    \/ \E kind \in CommandKinds, m \in SxMessages : SxCommand(kind, m)
    \/ SxCommit
    \/ \E only_active \in OnlyActive : SxAutocomplete(only_active)

\* C33: a scheduled message whose stop or delete has committed is not sent
\* by the loop until it is started (or created) again, also when the
\* iteration had begun before the commit.
C33_HaltedIsNotSent == sx_late = {}

\* C36: an autocomplete answer holds the guild's messages as the table has
\* them at that moment: stop-autocomplete the active ones, start-autocomplete
\* the inactive ones, delete-autocomplete all of them.
C36_AutocompleteIsCurrent ==
    sx_offer # None => sx_offer[2] = AutocompleteQuery(sx_rows, sx_offer[1])

(***************************************************************************)
(* Alerts.on_interaction with its reminder task, and /alert, for the users *)
(* of one current alert.  on_interaction tests the cooldown and the        *)
(* position cache, awaits a pooled connection and the SELECT, and only     *)
(* then stores the cooldown and creates send_reminder, which sends after   *)
(* the interaction has been answered.                                      *)
(***************************************************************************)
MaxReminderUsers == 2
MaxReminderHandlers == 2
MaxReminders == 2

RmUsers == 1 .. MaxReminderUsers
RmTasks == 1 .. MaxReminderHandlers
RmIdleTask == [pc |-> "idle", user |-> 0, row |-> FALSE]

RmIdle ==
    /\ rm_read = {}
    /\ rm_cache = {}
    /\ rm_cool = {}
    /\ rm_task = [t \in RmTasks |-> [RmIdleTask EXCEPT !.pc = "off"]]
    /\ rm_count = [u \in RmUsers |-> 0]
    /\ rm_unwanted = {}

\* after an alert was pushed and loaded: nobody has read it, the caches
\* are empty
RmInit ==
    /\ rm_read = {}
    /\ rm_cache = {}
    /\ rm_cool = {}
    /\ rm_task = [t \in RmTasks |-> RmIdleTask]
    /\ rm_count = [u \in RmUsers |-> 0]
    /\ rm_unwanted = {}

RmBusy(u) == \E t \in RmTasks : rm_task[t].user = u

\* on_interaction of an application command of user u, up to the first
\* suspension: `expiry > now` returns, `key in self._position_cache` returns
RmInteraction(t, u) ==
    /\ rm_task[t].pc = "idle"
    /\ rm_count[u] < MaxReminders
    /\ IF u \in rm_cool \/ u \in rm_cache
       THEN UNCHANGED rm_task
       ELSE rm_task' = [rm_task EXCEPT ![t] = [pc |-> "select", user |-> u, row |-> FALSE]]
    /\ UNCHANGED <<rm_read, rm_cache, rm_cool, rm_count, rm_unwanted>>
    /\ UNCHANGED notRm

\* SELECT 1 FROM alert_reads WHERE alert_id = ? AND user_id = ?
RmSelect(t) ==
    /\ rm_task[t].pc = "select"
    /\ rm_task' = [rm_task EXCEPT ![t].row = rm_task[t].user \in rm_read,
                                  ![t].pc = "decide"]
    /\ UNCHANGED <<rm_read, rm_cache, rm_cool, rm_count, rm_unwanted>>
    /\ UNCHANGED notRm

\* after the connection is returned: a reader gets the cache entry, anybody
\* else the cooldown entry and asyncio.create_task(send_reminder())
RmDecide(t) ==
    /\ rm_task[t].pc = "decide"
    /\ IF rm_task[t].row
       THEN /\ rm_cache' = rm_cache \cup {rm_task[t].user}
            /\ rm_task' = [rm_task EXCEPT ![t] = RmIdleTask]
            /\ UNCHANGED rm_cool
       ELSE /\ rm_cool' = rm_cool \cup {rm_task[t].user}
            /\ rm_task' = [rm_task EXCEPT ![t].pc = "remind"]
            /\ UNCHANGED rm_cache
    /\ UNCHANGED <<rm_read, rm_count, rm_unwanted>>
    /\ UNCHANGED notRm

\* send_reminder: interaction.followup.send(...), or the send raises
RmRemind(t, ok) ==
    /\ rm_task[t].pc = "remind"
    /\ LET u == rm_task[t].user
       IN  IF ok
           THEN /\ rm_count' = [rm_count EXCEPT ![u] = @ + 1]
                /\ rm_unwanted' = IF u \in rm_read THEN rm_unwanted \cup {u}
                                  ELSE rm_unwanted
           ELSE UNCHANGED <<rm_count, rm_unwanted>>
    /\ rm_task' = [rm_task EXCEPT ![t] = RmIdleTask]
    /\ UNCHANGED <<rm_read, rm_cache, rm_cool>>
    /\ UNCHANGED notRm

\* /alert of a user without a cache entry, up to its transaction
RmAlert(t, u) ==
    /\ rm_task[t].pc = "idle"
    /\ u \notin rm_cache
    /\ rm_task' = [rm_task EXCEPT ![t] = [pc |-> "read", user |-> u, row |-> FALSE]]
    /\ UNCHANGED <<rm_read, rm_cache, rm_cool, rm_count, rm_unwanted>>
    /\ UNCHANGED notRm

\* /alert: the transaction inserts the alert_reads row if there is none and
\* commits; the position is cached and the alert is shown
RmAlertCommit(t) ==
    /\ rm_task[t].pc = "read"
    /\ rm_read' = rm_read \cup {rm_task[t].user}
    /\ rm_cache' = rm_cache \cup {rm_task[t].user}
    /\ rm_task' = [rm_task EXCEPT ![t] = RmIdleTask]
    /\ UNCHANGED <<rm_cool, rm_count, rm_unwanted>>
    /\ UNCHANGED notRm

\* 300 seconds after they were stored the entries of user u have expired
\* (handlers take far less)
RmExpire(u) ==
    /\ ~RmBusy(u)
    /\ u \in rm_cool \cup rm_cache
    /\ rm_cool' = rm_cool \ {u}
    /\ rm_cache' = rm_cache \ {u}
    /\ rm_count' = [rm_count EXCEPT ![u] = 0]
    /\ UNCHANGED <<rm_read, rm_task, rm_unwanted>>
    /\ UNCHANGED notRm

RmTaskStep(t) ==
    \/ \E u \in RmUsers : RmInteraction(t, u) \/ RmAlert(t, u)
    \/ RmSelect(t)
    \/ RmDecide(t)
    \/ \E ok \in BOOLEAN : RmRemind(t, ok)
    \/ RmAlertCommit(t)

RmNext ==
    \/ \E t \in RmTasks : RmTaskStep(t)
    \/ \E u \in RmUsers : RmExpire(u)

\* C34: a user receives at most one unread-alert reminder per 300-second
\* cooldown window, and none after having read the current alert, however
\* the user's concurrent interactions interleave.
C34_OneReminderPerWindow ==
    /\ \A u \in RmUsers : rm_count[u] <= 1
    /\ rm_unwanted = {}

(***************************************************************************)
(* HaikuDetector: /haiku detection enable and disable, the refresh of      *)
(* _active_channels (at enable, and by haiku_monitor when the last refresh *)
(* is 180 s old) and the on_message listener that enqueues.                *)
(***************************************************************************)
MaxHaikuGuilds == 2
MaxHaikuChannels == 2

HdGuilds == 1 .. MaxHaikuGuilds
HdChannels == 1 .. MaxHaikuChannels

HdIdle ==
    /\ hd_db = [g \in HdGuilds |-> None]
    /\ hd_active = {}
    /\ hd_off = {}
    /\ hd_last = None

\* SELECT guild_id, channel_id FROM haiku_settings WHERE is_enabled = 1
EnabledChannels(db) ==
    {<<g, db[g][1]>> : g \in {h \in HdGuilds : db[h] # None /\ db[h][2]}}

\* after cog_load: refresh_active_channels has read the table
HdInit ==
    /\ hd_db \in [HdGuilds -> {None} \cup {<<c, TRUE>> : c \in HdChannels}]
    /\ hd_active = EnabledChannels(hd_db)
    /\ hd_off = {}
    /\ hd_last = None

\* enable_haiku_detection(channel): INSERT OR REPLACE ... is_enabled = 1,
\* commit, then refresh_active_channels()
HdEnable(g, c) ==
    /\ hd_db' = [hd_db EXCEPT ![g] = <<c, TRUE>>]
    /\ hd_active' = EnabledChannels(hd_db')
    /\ hd_off' = hd_off \ {g}
    /\ hd_last' = None
    /\ UNCHANGED notHd

\* disable_haiku_detection of a guild with an enabled row: UPDATE ...
\* SET is_enabled = 0, commit, and the answer; _active_channels is not touched
HdDisable(g) ==
    /\ hd_db[g] # None
    /\ hd_db[g][2]
    /\ hd_db' = [hd_db EXCEPT ![g] = <<@[1], FALSE>>]
    /\ UNCHANGED hd_active
    /\ hd_off' = hd_off \cup {g}
    /\ hd_last' = None
    /\ UNCHANGED notHd

\* haiku_monitor, 180 s after the last refresh: refresh_active_channels()
HdRefresh ==
    /\ hd_active # EnabledChannels(hd_db)
    /\ hd_active' = EnabledChannels(hd_db)
    /\ hd_last' = None
    /\ UNCHANGED <<hd_db, hd_off>>
    /\ UNCHANGED notHd

\* on_message of a member's new message in channel c of guild g
HdMessage(g, c) ==
    /\ hd_last' = <<g, c, <<g, c>> \in hd_active>>
    /\ UNCHANGED <<hd_db, hd_active, hd_off>>
    /\ UNCHANGED notHd

HdNext ==
    \/ \E g \in HdGuilds, c \in HdChannels : HdEnable(g, c) \/ HdMessage(g, c)
    \/ \E g \in HdGuilds : HdDisable(g)
    \/ HdRefresh

\* C35: after /haiku detection disable has completed for a guild (and until
\* detection is enabled again), on_message enqueues no message of that guild.
C35_DisabledIsNotEnqueued ==
    (hd_last # None /\ hd_last[1] \in hd_off) => ~hd_last[3]

(***************************************************************************)
(* StarboardCog.get_db_connection and _init_db_pool.  The pool is an       *)
(* asyncio.Queue(maxsize=_db_pool_size) that _init_db_pool fills; the      *)
(* release probes the connection with SELECT 1 and puts it into whatever   *)
(* self._db_pool is at that moment; a failed probe (or put) closes the     *)
(* connection and sets self._db_pool = None, and the next acquire builds a *)
(* new, full pool.  A pool is known by its number; the code's size is 5.   *)
(***************************************************************************)
DiscardPoolSize == 2
MaxPoolsBuilt == 3
MaxPoolUsers == 3

QdTasks == 1 .. MaxPoolUsers

QdIdle ==
    /\ qd_pool = None
    /\ qd_built = 0
    /\ qd_pc = [t \in QdTasks |-> "off"]
    /\ qd_from = [t \in QdTasks |-> 0]
    /\ qd_wait = [t \in QdTasks |-> 0]

\* after cog_load, which awaits _init_db_pool(): the first pool, full
QdInit ==
    /\ qd_pool = <<1, DiscardPoolSize>>
    /\ qd_built = 1
    /\ qd_pc = [t \in QdTasks |-> "idle"]
    /\ qd_from = [t \in QdTasks |-> 0]
    /\ qd_wait = [t \in QdTasks |-> 0]

\* asyncio.Queue.full() of a Queue(maxsize=_db_pool_size)
QueueFull(qsize) == qsize >= DiscardPoolSize

\* get_db_connection up to its first suspension: `if self._db_pool is None:
\* await self._init_db_pool()`, else `conn = await self._db_pool.get()`,
\* which suspends on an empty queue
QdAcquire(t) ==
    /\ qd_pc[t] = "idle"
    /\ IF qd_pool = None
       THEN /\ qd_built + Cardinality({u \in QdTasks : qd_pc[u] = "init"}) < MaxPoolsBuilt
            /\ qd_pc' = [qd_pc EXCEPT ![t] = "init"]
            /\ UNCHANGED <<qd_pool, qd_from, qd_wait>>
       ELSE IF qd_pool[2] > 0
            THEN /\ qd_pool' = <<qd_pool[1], qd_pool[2] - 1>>
                 /\ qd_from' = [qd_from EXCEPT ![t] = qd_pool[1]]
                 /\ qd_pc' = [qd_pc EXCEPT ![t] = "hold"]
                 /\ UNCHANGED qd_wait
            ELSE /\ qd_wait' = [qd_wait EXCEPT ![t] = qd_pool[1]]
                 /\ qd_pc' = [qd_pc EXCEPT ![t] = "get"]
                 /\ UNCHANGED <<qd_pool, qd_from>>
    /\ UNCHANGED qd_built
    /\ UNCHANGED notQd

\* the end of _init_db_pool, entered when self._db_pool was None: either the
\* last retry of a connect raises (ok = FALSE) and get_db_connection raises,
\* or `self._db_pool = pool` and the caller's get() of the full new queue
QdInitDone(t, ok) ==
    /\ qd_pc[t] = "init"
    /\ IF ok
       THEN /\ qd_built' = qd_built + 1
            /\ qd_pool' = <<qd_built + 1, DiscardPoolSize - 1>>
            /\ qd_from' = [qd_from EXCEPT ![t] = qd_built + 1]
            /\ qd_pc' = [qd_pc EXCEPT ![t] = "hold"]
       ELSE /\ qd_pc' = [qd_pc EXCEPT ![t] = "idle"]
            /\ UNCHANGED <<qd_pool, qd_built, qd_from>>
    /\ UNCHANGED qd_wait
    /\ UNCHANGED notQd

\* a getter suspended in get() of a queue that has received an item
QdGetWake(t) ==
    /\ qd_pc[t] = "get"
    /\ qd_pool # None
    /\ qd_pool[1] = qd_wait[t]
    /\ qd_pool[2] > 0
    /\ qd_pool' = <<qd_pool[1], qd_pool[2] - 1>>
    /\ qd_from' = [qd_from EXCEPT ![t] = qd_pool[1]]
    /\ qd_wait' = [qd_wait EXCEPT ![t] = 0]
    /\ qd_pc' = [qd_pc EXCEPT ![t] = "hold"]
    /\ UNCHANGED qd_built
    /\ UNCHANGED notQd

\* finally: `await conn.execute("SELECT 1")`; ok: the probe succeeds
QdProbe(t, ok) ==
    /\ qd_pc[t] = "hold"
    /\ qd_pc' = [qd_pc EXCEPT ![t] = IF ok THEN "probed" ELSE "closing"]
    /\ UNCHANGED <<qd_pool, qd_built, qd_from, qd_wait>>
    /\ UNCHANGED notQd

\* `await self._db_pool.put(conn)`: None has no put (the AttributeError is
\* caught like a failed probe), a full queue suspends the putter
QdPut(t) ==
    /\ qd_pc[t] = "probed"
    /\ IF qd_pool = None
       THEN /\ qd_pc' = [qd_pc EXCEPT ![t] = "closing"]
            /\ UNCHANGED <<qd_pool, qd_from, qd_wait>>
       ELSE IF QueueFull(qd_pool[2])
            THEN /\ qd_wait' = [qd_wait EXCEPT ![t] = qd_pool[1]]
                 /\ qd_pc' = [qd_pc EXCEPT ![t] = "put"]
                 /\ UNCHANGED <<qd_pool, qd_from>>
            ELSE /\ qd_pool' = <<qd_pool[1], qd_pool[2] + 1>>
                 /\ qd_from' = [qd_from EXCEPT ![t] = 0]
                 /\ qd_pc' = [qd_pc EXCEPT ![t] = "idle"]
                 /\ UNCHANGED qd_wait
    /\ UNCHANGED qd_built
    /\ UNCHANGED notQd

\* a putter suspended in put() of a queue a getter has taken an item from
QdPutWake(t) ==
    /\ qd_pc[t] = "put"
    /\ qd_pool # None
    /\ qd_pool[1] = qd_wait[t]
    /\ ~QueueFull(qd_pool[2])
    /\ qd_pool' = <<qd_pool[1], qd_pool[2] + 1>>
    /\ qd_from' = [qd_from EXCEPT ![t] = 0]
    /\ qd_wait' = [qd_wait EXCEPT ![t] = 0]
    /\ qd_pc' = [qd_pc EXCEPT ![t] = "idle"]
    /\ UNCHANGED qd_built
    /\ UNCHANGED notQd

\* except Exception: `await conn.close()` (its own failure is passed over),
\* then `self._db_pool = None`
QdDiscard(t) ==
    /\ qd_pc[t] = "closing"
    /\ qd_pool' = None
    /\ qd_from' = [qd_from EXCEPT ![t] = 0]
    /\ qd_pc' = [qd_pc EXCEPT ![t] = "idle"]
    /\ UNCHANGED <<qd_built, qd_wait>>
    /\ UNCHANGED notQd

QdTaskStep(t) ==
    \/ QdAcquire(t)
    \/ \E ok \in BOOLEAN : QdInitDone(t, ok)
    \/ QdGetWake(t)
    \/ \E ok \in BOOLEAN : QdProbe(t, ok)
    \/ QdPut(t)
    \/ QdPutWake(t)
    \/ QdDiscard(t)

QdNext == \E t \in QdTasks : QdTaskStep(t)

\* C37: a task that releases its connection is never suspended in the put
\* of the release, whatever happened to the pool since it took the connection.
C37_ReleaseNeverWaits ==
    \A t \in QdTasks : qd_pc[t] # "put"

(***************************************************************************)
(* MemberCountTracker: the commands and the monitor as users of self.lock  *)
(* and of get_db_connection.  enable, disable and the monitor's final      *)
(* write take self.lock and then a connection ("locked"); reset takes a    *)
(* connection, reads the tables, and takes self.lock for its DELETEs       *)
(* ("reset"); edit and the monitor's per-guild SELECT take a connection    *)
(* only ("plain").  A step runs from one suspension to the next: a free    *)
(* asyncio.Lock and a semaphore above zero do not suspend.                 *)
(***************************************************************************)
MaxLockTasks == 3

LkTasks == 1 .. MaxLockTasks
LkKinds == {"locked", "reset", "plain"}

LkIdle ==
    /\ lk_pc = [t \in LkTasks |-> "off"]
    /\ lk_kind = [t \in LkTasks |-> "none"]
    /\ lk_conn = [t \in LkTasks |-> FALSE]
    /\ lk_lock = 0
    /\ lk_lockq = <<>>
    /\ lk_plock = 0
    /\ lk_plockq = <<>>
    /\ lk_pool = 0
    /\ lk_sem = 0

\* after cog_load: init_mctracker_db has built the pool and returned its
\* connection
LkInit ==
    /\ lk_pc = [t \in LkTasks |-> "idle"]
    /\ lk_kind = [t \in LkTasks |-> "none"]
    /\ lk_conn = [t \in LkTasks |-> FALSE]
    /\ lk_lock = 0
    /\ lk_lockq = <<>>
    /\ lk_plock = 0
    /\ lk_plockq = <<>>
    /\ lk_pool = PoolSize
    /\ lk_sem = PoolSize

\* a get_db_connection that never takes the list for empty and so never
\* builds a further pool
PoolNeverEmpty(pool) == FALSE

\* `if not self._db_pool`: the list of idle connections is empty
PoolEmpty(pool) == pool = 0

\* asyncio.Lock.release: the lock passes to the first waiter, if any
Handover(owner, queue) ==
    IF queue = <<>> THEN <<0, queue>> ELSE <<Head(queue), Tail(queue)>>

\* `await self._pool_semaphore.acquire(); conn = self._db_pool.pop()`
LkTake(t) ==
    IF lk_sem > 0
    THEN /\ lk_sem' = lk_sem - 1
         /\ lk_pool' = lk_pool - 1
         /\ lk_conn' = [lk_conn EXCEPT ![t] = TRUE]
         /\ lk_pc' = [lk_pc EXCEPT ![t] = "hold"]
    ELSE /\ lk_pc' = [lk_pc EXCEPT ![t] = "semwait"]
         /\ UNCHANGED <<lk_sem, lk_pool, lk_conn>>

\* get_db_connection up to its first suspension
LkGetConnection(t) ==
    IF PoolEmpty(lk_pool)
    THEN /\ IF lk_plock = 0 /\ lk_plockq = <<>>
            THEN /\ lk_plock' = t
                 /\ lk_pc' = [lk_pc EXCEPT ![t] = "creating"]
                 /\ UNCHANGED lk_plockq
            ELSE /\ lk_plockq' = Append(lk_plockq, t)
                 /\ lk_pc' = [lk_pc EXCEPT ![t] = "poolwait"]
                 /\ UNCHANGED lk_plock
         /\ UNCHANGED <<lk_sem, lk_pool, lk_conn>>
    ELSE /\ LkTake(t)
         /\ UNCHANGED <<lk_plock, lk_plockq>>

\* a command or the monitor begins: `async with self.lock:` first for the
\* locked kind, then (or at once) `async with self.get_db_connection()`
LkBegin(t, kind) ==
    /\ lk_pc[t] = "idle"
    /\ lk_kind' = [lk_kind EXCEPT ![t] = kind]
    /\ IF kind = "locked"
       THEN IF lk_lock = 0 /\ lk_lockq = <<>>
            THEN /\ lk_lock' = t
                 /\ UNCHANGED lk_lockq
                 /\ LkGetConnection(t)
            ELSE /\ lk_lockq' = Append(lk_lockq, t)
                 /\ lk_pc' = [lk_pc EXCEPT ![t] = "cogwait"]
                 /\ UNCHANGED <<lk_lock, lk_plock, lk_plockq, lk_sem, lk_pool, lk_conn>>
       ELSE /\ LkGetConnection(t)
            /\ UNCHANGED <<lk_lock, lk_lockq>>
    /\ UNCHANGED notLk

\* a suspended task whose lock has been passed to it, or whose semaphore
\* has been released, goes on: with self.lock to get_db_connection (locked)
\* or to the DELETEs (reset); with _pool_lock to `if self._db_pool: return`
LkResume(t) ==
    /\ CASE lk_pc[t] = "cogwait" ->
               /\ lk_lock = t
               /\ IF lk_kind[t] = "reset"
                  THEN /\ lk_pc' = [lk_pc EXCEPT ![t] = "delete"]
                       /\ UNCHANGED <<lk_plock, lk_plockq, lk_sem, lk_pool, lk_conn>>
                  ELSE LkGetConnection(t)
         [] lk_pc[t] = "poolwait" ->
               /\ lk_plock = t
               /\ IF lk_pool > 0
                  THEN /\ lk_plock' = Handover(lk_plock, lk_plockq)[1]
                       /\ lk_plockq' = Handover(lk_plock, lk_plockq)[2]
                       /\ LkTake(t)
                  ELSE /\ lk_pc' = [lk_pc EXCEPT ![t] = "creating"]
                       /\ UNCHANGED <<lk_plock, lk_plockq, lk_sem, lk_pool, lk_conn>>
         [] lk_pc[t] = "semwait" ->
               /\ lk_sem > 0
               /\ LkTake(t)
               /\ UNCHANGED <<lk_plock, lk_plockq>>
         [] OTHER -> FALSE
    /\ UNCHANGED <<lk_kind, lk_lock, lk_lockq>>
    /\ UNCHANGED notLk

\* _init_db_pool with _pool_lock, its connects done.  ok: `self._db_pool =
\* created_conns`, a new semaphore of that many, and the caller takes a
\* connection; else the last retry raises and the command ends, leaving
\* self.lock if it had it
LkCreated(t, ok) ==
    /\ lk_pc[t] = "creating"
    /\ lk_plock' = Handover(lk_plock, lk_plockq)[1]
    /\ lk_plockq' = Handover(lk_plock, lk_plockq)[2]
    /\ IF ok
       THEN /\ lk_pool' = PoolSize - 1
            /\ lk_sem' = PoolSize - 1
            /\ lk_conn' = [lk_conn EXCEPT ![t] = TRUE]
            /\ lk_pc' = [lk_pc EXCEPT ![t] = "hold"]
            /\ UNCHANGED <<lk_lock, lk_lockq>>
       ELSE /\ lk_pc' = [lk_pc EXCEPT ![t] = "idle"]
            /\ IF lk_lock = t
               THEN /\ lk_lock' = Handover(lk_lock, lk_lockq)[1]
                    /\ lk_lockq' = Handover(lk_lock, lk_lockq)[2]
               ELSE UNCHANGED <<lk_lock, lk_lockq>>
            /\ UNCHANGED <<lk_pool, lk_sem, lk_conn>>
    /\ UNCHANGED lk_kind
    /\ UNCHANGED notLk

\* the statements under the connection are done.  locked and plain: the
\* connection goes back (append, semaphore.release) and self.lock is left;
\* reset: `async with self.lock:` with the connection still checked out
LkWork(t) ==
    /\ lk_pc[t] = "hold"
    /\ IF lk_kind[t] = "reset"
       THEN /\ IF lk_lock = 0 /\ lk_lockq = <<>>
               THEN /\ lk_lock' = t
                    /\ lk_pc' = [lk_pc EXCEPT ![t] = "delete"]
                    /\ UNCHANGED lk_lockq
               ELSE /\ lk_lockq' = Append(lk_lockq, t)
                    /\ lk_pc' = [lk_pc EXCEPT ![t] = "cogwait"]
                    /\ UNCHANGED lk_lock
            /\ UNCHANGED <<lk_pool, lk_sem, lk_conn>>
       ELSE /\ lk_pool' = lk_pool + 1
            /\ lk_sem' = lk_sem + 1
            /\ lk_conn' = [lk_conn EXCEPT ![t] = FALSE]
            /\ lk_pc' = [lk_pc EXCEPT ![t] = "idle"]
            /\ IF lk_lock = t
               THEN /\ lk_lock' = Handover(lk_lock, lk_lockq)[1]
                    /\ lk_lockq' = Handover(lk_lock, lk_lockq)[2]
               ELSE UNCHANGED <<lk_lock, lk_lockq>>
    /\ UNCHANGED <<lk_kind, lk_plock, lk_plockq>>
    /\ UNCHANGED notLk

\* reset_member_tracker after its DELETEs and commit: self.lock is left,
\* then the connection goes back
LkResetDone(t) ==
    /\ lk_pc[t] = "delete"
    /\ lk_lock' = Handover(lk_lock, lk_lockq)[1]
    /\ lk_lockq' = Handover(lk_lock, lk_lockq)[2]
    /\ lk_pool' = lk_pool + 1
    /\ lk_sem' = lk_sem + 1
    /\ lk_conn' = [lk_conn EXCEPT ![t] = FALSE]
    /\ lk_pc' = [lk_pc EXCEPT ![t] = "idle"]
    /\ UNCHANGED <<lk_kind, lk_plock, lk_plockq>>
    /\ UNCHANGED notLk

\* the steps of a task that has begun
LkProgress(t) ==
    \/ LkResume(t)
    \/ \E ok \in BOOLEAN : LkCreated(t, ok)
    \/ LkWork(t)
    \/ LkResetDone(t)

LkNext ==
    \E t \in LkTasks :
        \/ \E kind \in LkKinds : LkBegin(t, kind)
        \/ LkProgress(t)

\* the tasks in the middle of a command or of a monitor run
LkBusy == {t \in LkTasks : lk_pc[t] # "idle"}

\* C38: no deadlock: whenever commands or the monitor are under way, one of
\* them can take its next step.
C38_NoDeadlock ==
    LkBusy # {} => \E t \in LkBusy : ENABLED LkProgress(t)

\* every pooled connection is held by a reset that waits for self.lock,
\* and the owner of self.lock has been through get_db_connection
C38_Witness ==
    /\ Cardinality({t \in LkTasks : lk_kind[t] = "reset" /\ lk_pc[t] = "cogwait" /\ lk_conn[t]}) >= PoolSize
    /\ \E t \in LkTasks :
          /\ lk_kind[t] = "locked"
          /\ lk_lock = t
          /\ lk_pc[t] \in {"creating", "hold"}

(***************************************************************************)
(* StickyMessages: /sticky panel setup, which asks get_next_panel_id for   *)
(* the id of the new panel and opens PanelSetupModal, the modal's INSERT   *)
(* and /sticky panel delete.                                               *)
(***************************************************************************)
MaxPanelId == 4
MaxPanelGuilds == 2

NpGuilds == 1 .. MaxPanelGuilds
NpIds == 1 .. MaxPanelId

NpIdle ==
    /\ np_rows = [g \in NpGuilds |-> {}]
    /\ np_modal = [g \in NpGuilds |-> 0]
    /\ np_last = None

\* after cog_load: the table as earlier setups and deletes have left it
NpInit ==
    /\ np_rows \in [NpGuilds -> {{}, {1}}]
    /\ np_modal = [g \in NpGuilds |-> 0]
    /\ np_last = None

\* SELECT MAX(panel_id) FROM sticky_panels WHERE guild_id = ?
MaxPanel(ids) == IF ids = {} THEN None ELSE Some(CHOOSE n \in ids : \A m \in ids : m <= n)

\* max_id = row[0] if row and row[0] is not None else 0; return max_id + 1
get_next_panel_id(ids) ==
    LET row == MaxPanel(ids)
        max_id == IF row # None THEN row[1] ELSE 0
    IN  max_id + 1

\* panel_setup: panel_id = await self.get_next_panel_id(guild), send_modal
NpSetup(g) ==
    /\ get_next_panel_id(np_rows[g]) <= MaxPanelId
    /\ np_modal' = [np_modal EXCEPT ![g] = get_next_panel_id(np_rows[g])]
    /\ np_last' = <<g, get_next_panel_id(np_rows[g]), np_rows[g]>>
    /\ UNCHANGED np_rows
    /\ UNCHANGED notNp

\* PanelSetupModal.on_submit: INSERT INTO sticky_panels, which the primary
\* key (guild_id, panel_id) rejects when the id is in use
NpSubmit(g) ==
    /\ np_modal[g] # 0
    /\ np_rows' = [np_rows EXCEPT ![g] = @ \cup {np_modal[g]}]
    /\ np_modal' = [np_modal EXCEPT ![g] = 0]
    /\ np_last' = None
    /\ UNCHANGED notNp

\* panel_delete: DELETE FROM sticky_panels WHERE guild_id = ? AND panel_id = ?
NpDelete(g, p) ==
    /\ p \in np_rows[g]
    /\ np_rows' = [np_rows EXCEPT ![g] = @ \ {p}]
    /\ np_last' = None
    /\ UNCHANGED np_modal
    /\ UNCHANGED notNp

NpNext ==
    \E g \in NpGuilds :
        \/ NpSetup(g)
        \/ NpSubmit(g)
        \/ \E p \in NpIds : NpDelete(g, p)

\* the lowest positive id that is not in ids
C39_Lowest(ids) == CHOOSE n \in 1 .. (Cardinality(ids) + 1) :
    n \notin ids /\ \A m \in 1 .. (n - 1) : m \in ids

\* C39: the id get_next_panel_id returns is the lowest panel id that no
\* sticky panel of the guild uses at that moment.
C39_LowestUnusedId ==
    np_last # None => np_last[2] = C39_Lowest(np_last[3])

(***************************************************************************)
(* Specifications.                                                         *)
(***************************************************************************)
InitFreq == FqInit /\ PlIdle /\ AlIdle /\ IdIdle /\ SbIdle /\ SlIdle /\ StIdle
    /\ CiIdle /\ SdIdle /\ MtIdle /\ SpIdle /\ WlIdle /\ ApIdle /\ MoIdle /\ HkIdle
    /\ EmIdle /\ SuIdle /\ DuIdle /\ SrIdle /\ OmIdle /\ GsIdle /\ TmIdle /\ SkIdle
    /\ LfIdle /\ SxIdle /\ RmIdle /\ HdIdle /\ QdIdle /\ LkIdle /\ NpIdle
InitPools == PlInit /\ FqIdle /\ AlIdle /\ IdIdle /\ SbIdle /\ SlIdle /\ StIdle
    /\ CiIdle /\ SdIdle /\ MtIdle /\ SpIdle /\ WlIdle /\ ApIdle /\ MoIdle /\ HkIdle
    /\ EmIdle /\ SuIdle /\ DuIdle /\ SrIdle /\ OmIdle /\ GsIdle /\ TmIdle /\ SkIdle
    /\ LfIdle /\ SxIdle /\ RmIdle /\ HdIdle /\ QdIdle /\ LkIdle /\ NpIdle
InitAlerts == AlInit /\ FqIdle /\ PlIdle /\ IdIdle /\ SbIdle /\ SlIdle /\ StIdle
    /\ CiIdle /\ SdIdle /\ MtIdle /\ SpIdle /\ WlIdle /\ ApIdle /\ MoIdle /\ HkIdle
    /\ EmIdle /\ SuIdle /\ DuIdle /\ SrIdle /\ OmIdle /\ GsIdle /\ TmIdle /\ SkIdle
    /\ LfIdle /\ SxIdle /\ RmIdle /\ HdIdle /\ QdIdle /\ LkIdle /\ NpIdle
InitNextId == IdInit /\ FqIdle /\ PlIdle /\ AlIdle /\ SbIdle /\ SlIdle /\ StIdle
    /\ CiIdle /\ SdIdle /\ MtIdle /\ SpIdle /\ WlIdle /\ ApIdle /\ MoIdle /\ HkIdle
    /\ EmIdle /\ SuIdle /\ DuIdle /\ SrIdle /\ OmIdle /\ GsIdle /\ TmIdle /\ SkIdle
    /\ LfIdle /\ SxIdle /\ RmIdle /\ HdIdle /\ QdIdle /\ LkIdle /\ NpIdle
InitSettings == SbInit /\ FqIdle /\ PlIdle /\ AlIdle /\ IdIdle /\ SlIdle /\ StIdle
    /\ CiIdle /\ SdIdle /\ MtIdle /\ SpIdle /\ WlIdle /\ ApIdle /\ MoIdle /\ HkIdle
    /\ EmIdle /\ SuIdle /\ DuIdle /\ SrIdle /\ OmIdle /\ GsIdle /\ TmIdle /\ SkIdle
    /\ LfIdle /\ SxIdle /\ RmIdle /\ HdIdle /\ QdIdle /\ LkIdle /\ NpIdle
\* one of the three cogs with a TTL cache
InitCaches == InitAlerts \/ InitNextId \/ InitSettings
InitSendLoop == SlInit /\ FqIdle /\ PlIdle /\ AlIdle /\ IdIdle /\ SbIdle /\ StIdle
    /\ CiIdle /\ SdIdle /\ MtIdle /\ SpIdle /\ WlIdle /\ ApIdle /\ MoIdle /\ HkIdle
    /\ EmIdle /\ SuIdle /\ DuIdle /\ SrIdle /\ OmIdle /\ GsIdle /\ TmIdle /\ SkIdle
    /\ LfIdle /\ SxIdle /\ RmIdle /\ HdIdle /\ QdIdle /\ LkIdle /\ NpIdle
InitSticky == StInit /\ FqIdle /\ PlIdle /\ AlIdle /\ IdIdle /\ SbIdle /\ SlIdle
    /\ CiIdle /\ SdIdle /\ MtIdle /\ SpIdle /\ WlIdle /\ ApIdle /\ MoIdle /\ HkIdle
    /\ EmIdle /\ SuIdle /\ DuIdle /\ SrIdle /\ OmIdle /\ GsIdle /\ TmIdle /\ SkIdle
    /\ LfIdle /\ SxIdle /\ RmIdle /\ HdIdle /\ QdIdle /\ LkIdle /\ NpIdle
InitPoolInit == CiInit /\ FqIdle /\ PlIdle /\ AlIdle /\ IdIdle /\ SbIdle /\ SlIdle
    /\ StIdle /\ SdIdle /\ MtIdle /\ SpIdle /\ WlIdle /\ ApIdle /\ MoIdle /\ HkIdle
    /\ EmIdle /\ SuIdle /\ DuIdle /\ SrIdle /\ OmIdle /\ GsIdle /\ TmIdle /\ SkIdle
    /\ LfIdle /\ SxIdle /\ RmIdle /\ HdIdle /\ QdIdle /\ LkIdle /\ NpIdle
\* a cog in use is unloaded
InitShutdown == SdPoolInit /\ SdInit /\ FqIdle /\ AlIdle /\ IdIdle /\ SbIdle /\ SlIdle
    /\ StIdle /\ CiIdle /\ MtIdle /\ SpIdle /\ WlIdle /\ ApIdle /\ MoIdle /\ HkIdle
    /\ EmIdle /\ SuIdle /\ DuIdle /\ SrIdle /\ OmIdle /\ GsIdle /\ TmIdle /\ SkIdle
    /\ LfIdle /\ SxIdle /\ RmIdle /\ HdIdle /\ QdIdle /\ LkIdle /\ NpIdle
InitTracker == MtInit /\ FqIdle /\ PlIdle /\ AlIdle /\ IdIdle /\ SbIdle /\ SlIdle
    /\ StIdle /\ CiIdle /\ SdIdle /\ SpIdle /\ WlIdle /\ ApIdle /\ MoIdle /\ HkIdle
    /\ EmIdle /\ SuIdle /\ DuIdle /\ SrIdle /\ OmIdle /\ GsIdle /\ TmIdle /\ SkIdle
    /\ LfIdle /\ SxIdle /\ RmIdle /\ HdIdle /\ QdIdle /\ LkIdle /\ NpIdle
InitPanels == SpInit /\ FqIdle /\ PlIdle /\ AlIdle /\ IdIdle /\ SbIdle /\ SlIdle
    /\ StIdle /\ CiIdle /\ SdIdle /\ MtIdle /\ WlIdle /\ ApIdle /\ MoIdle /\ HkIdle
    /\ EmIdle /\ SuIdle /\ DuIdle /\ SrIdle /\ OmIdle /\ GsIdle /\ TmIdle /\ SkIdle
    /\ LfIdle /\ SxIdle /\ RmIdle /\ HdIdle /\ QdIdle /\ LkIdle /\ NpIdle
InitWelcome == WlInit /\ FqIdle /\ PlIdle /\ AlIdle /\ IdIdle /\ SbIdle /\ SlIdle
    /\ StIdle /\ CiIdle /\ SdIdle /\ MtIdle /\ SpIdle /\ ApIdle /\ MoIdle /\ HkIdle
    /\ EmIdle /\ SuIdle /\ DuIdle /\ SrIdle /\ OmIdle /\ GsIdle /\ TmIdle /\ SkIdle
    /\ LfIdle /\ SxIdle /\ RmIdle /\ HdIdle /\ QdIdle /\ LkIdle /\ NpIdle
InitPush == ApInit /\ FqIdle /\ PlIdle /\ AlIdle /\ IdIdle /\ SbIdle /\ SlIdle
    /\ StIdle /\ CiIdle /\ SdIdle /\ MtIdle /\ SpIdle /\ WlIdle /\ MoIdle /\ HkIdle
    /\ EmIdle /\ SuIdle /\ DuIdle /\ SrIdle /\ OmIdle /\ GsIdle /\ TmIdle /\ SkIdle
    /\ LfIdle /\ SxIdle /\ RmIdle /\ HdIdle /\ QdIdle /\ LkIdle /\ NpIdle
InitMonitor == MoInit /\ FqIdle /\ PlIdle /\ AlIdle /\ IdIdle /\ SbIdle /\ SlIdle
    /\ StIdle /\ CiIdle /\ SdIdle /\ MtIdle /\ SpIdle /\ WlIdle /\ ApIdle /\ HkIdle
    /\ EmIdle /\ SuIdle /\ DuIdle /\ SrIdle /\ OmIdle /\ GsIdle /\ TmIdle /\ SkIdle
    /\ LfIdle /\ SxIdle /\ RmIdle /\ HdIdle /\ QdIdle /\ LkIdle /\ NpIdle
InitHaiku == HkInit /\ FqIdle /\ PlIdle /\ AlIdle /\ IdIdle /\ SbIdle /\ SlIdle
    /\ StIdle /\ CiIdle /\ SdIdle /\ MtIdle /\ SpIdle /\ WlIdle /\ ApIdle /\ MoIdle
    /\ EmIdle /\ SuIdle /\ DuIdle /\ SrIdle /\ OmIdle /\ GsIdle /\ TmIdle /\ SkIdle
    /\ LfIdle /\ SxIdle /\ RmIdle /\ HdIdle /\ QdIdle /\ LkIdle /\ NpIdle
InitEdit == EmInit /\ FqIdle /\ PlIdle /\ AlIdle /\ IdIdle /\ SbIdle /\ SlIdle
    /\ StIdle /\ CiIdle /\ SdIdle /\ MtIdle /\ SpIdle /\ WlIdle /\ ApIdle /\ MoIdle
    /\ HkIdle /\ SuIdle /\ DuIdle /\ SrIdle /\ OmIdle /\ GsIdle /\ TmIdle /\ SkIdle
    /\ LfIdle /\ SxIdle /\ RmIdle /\ HdIdle /\ QdIdle /\ LkIdle /\ NpIdle
InitSetup == SuInit /\ FqIdle /\ PlIdle /\ AlIdle /\ IdIdle /\ SbIdle /\ SlIdle
    /\ StIdle /\ CiIdle /\ SdIdle /\ MtIdle /\ SpIdle /\ WlIdle /\ ApIdle /\ MoIdle
    /\ HkIdle /\ EmIdle /\ DuIdle /\ SrIdle /\ OmIdle /\ GsIdle /\ TmIdle /\ SkIdle
    /\ LfIdle /\ SxIdle /\ RmIdle /\ HdIdle /\ QdIdle /\ LkIdle /\ NpIdle
InitDebounce == DuInit /\ FqIdle /\ PlIdle /\ AlIdle /\ IdIdle /\ SbIdle /\ SlIdle
    /\ StIdle /\ CiIdle /\ SdIdle /\ MtIdle /\ SpIdle /\ WlIdle /\ ApIdle /\ MoIdle
    /\ HkIdle /\ EmIdle /\ SuIdle /\ SrIdle /\ OmIdle /\ GsIdle /\ TmIdle /\ SkIdle
    /\ LfIdle /\ SxIdle /\ RmIdle /\ HdIdle /\ QdIdle /\ LkIdle /\ NpIdle
InitStar == SrInit /\ FqIdle /\ PlIdle /\ AlIdle /\ IdIdle /\ SbIdle /\ SlIdle
    /\ StIdle /\ CiIdle /\ SdIdle /\ MtIdle /\ SpIdle /\ WlIdle /\ ApIdle /\ MoIdle
    /\ HkIdle /\ EmIdle /\ SuIdle /\ DuIdle /\ OmIdle /\ GsIdle /\ TmIdle /\ SkIdle
    /\ LfIdle /\ SxIdle /\ RmIdle /\ HdIdle /\ QdIdle /\ LkIdle /\ NpIdle
InitOnMessage == OmInit /\ FqIdle /\ PlIdle /\ AlIdle /\ IdIdle /\ SbIdle /\ SlIdle
    /\ StIdle /\ CiIdle /\ SdIdle /\ MtIdle /\ SpIdle /\ WlIdle /\ ApIdle /\ MoIdle
    /\ HkIdle /\ EmIdle /\ SuIdle /\ DuIdle /\ SrIdle /\ GsIdle /\ TmIdle /\ SkIdle
    /\ LfIdle /\ SxIdle /\ RmIdle /\ HdIdle /\ QdIdle /\ LkIdle /\ NpIdle
InitSettingsGet == GsInit /\ FqIdle /\ PlIdle /\ AlIdle /\ IdIdle /\ SbIdle /\ SlIdle
    /\ StIdle /\ CiIdle /\ SdIdle /\ MtIdle /\ SpIdle /\ WlIdle /\ ApIdle /\ MoIdle
    /\ HkIdle /\ EmIdle /\ SuIdle /\ DuIdle /\ SrIdle /\ OmIdle /\ TmIdle /\ SkIdle
    /\ LfIdle /\ SxIdle /\ RmIdle /\ HdIdle /\ QdIdle /\ LkIdle /\ NpIdle
InitTempHide == TmInit /\ FqIdle /\ PlIdle /\ AlIdle /\ IdIdle /\ SbIdle /\ SlIdle
    /\ StIdle /\ CiIdle /\ SdIdle /\ MtIdle /\ SpIdle /\ WlIdle /\ ApIdle /\ MoIdle
    /\ HkIdle /\ EmIdle /\ SuIdle /\ DuIdle /\ SrIdle /\ OmIdle /\ GsIdle /\ SkIdle
    /\ LfIdle /\ SxIdle /\ RmIdle /\ HdIdle /\ QdIdle /\ LkIdle /\ NpIdle
InitStickyRace == SkInit /\ FqIdle /\ PlIdle /\ AlIdle /\ IdIdle /\ SbIdle /\ SlIdle
    /\ StIdle /\ CiIdle /\ SdIdle /\ MtIdle /\ SpIdle /\ WlIdle /\ ApIdle /\ MoIdle
    /\ HkIdle /\ EmIdle /\ SuIdle /\ DuIdle /\ SrIdle /\ OmIdle /\ GsIdle /\ TmIdle
    /\ LfIdle /\ SxIdle /\ RmIdle /\ HdIdle /\ QdIdle /\ LkIdle /\ NpIdle
InitLfg == LfInit /\ FqIdle /\ PlIdle /\ AlIdle /\ IdIdle /\ SbIdle /\ SlIdle /\ StIdle
    /\ CiIdle /\ SdIdle /\ MtIdle /\ SpIdle /\ WlIdle /\ ApIdle /\ MoIdle /\ HkIdle
    /\ EmIdle /\ SuIdle /\ DuIdle /\ SrIdle /\ OmIdle /\ GsIdle /\ TmIdle /\ SkIdle
    /\ SxIdle /\ RmIdle /\ HdIdle /\ QdIdle /\ LkIdle /\ NpIdle
InitCommands == SxInit /\ FqIdle /\ PlIdle /\ AlIdle /\ IdIdle /\ SbIdle /\ SlIdle
    /\ StIdle /\ CiIdle /\ SdIdle /\ MtIdle /\ SpIdle /\ WlIdle /\ ApIdle /\ MoIdle
    /\ HkIdle /\ EmIdle /\ SuIdle /\ DuIdle /\ SrIdle /\ OmIdle /\ GsIdle /\ TmIdle
    /\ SkIdle /\ LfIdle /\ RmIdle /\ HdIdle /\ QdIdle /\ LkIdle /\ NpIdle
InitReminder == RmInit /\ FqIdle /\ PlIdle /\ AlIdle /\ IdIdle /\ SbIdle /\ SlIdle
    /\ StIdle /\ CiIdle /\ SdIdle /\ MtIdle /\ SpIdle /\ WlIdle /\ ApIdle /\ MoIdle
    /\ HkIdle /\ EmIdle /\ SuIdle /\ DuIdle /\ SrIdle /\ OmIdle /\ GsIdle /\ TmIdle
    /\ SkIdle /\ LfIdle /\ SxIdle /\ HdIdle /\ QdIdle /\ LkIdle /\ NpIdle
InitDetection == HdInit /\ FqIdle /\ PlIdle /\ AlIdle /\ IdIdle /\ SbIdle /\ SlIdle
    /\ StIdle /\ CiIdle /\ SdIdle /\ MtIdle /\ SpIdle /\ WlIdle /\ ApIdle /\ MoIdle
    /\ HkIdle /\ EmIdle /\ SuIdle /\ DuIdle /\ SrIdle /\ OmIdle /\ GsIdle /\ TmIdle
    /\ SkIdle /\ LfIdle /\ SxIdle /\ RmIdle /\ QdIdle /\ LkIdle /\ NpIdle
InitDiscard == QdInit /\ FqIdle /\ PlIdle /\ AlIdle /\ IdIdle /\ SbIdle /\ SlIdle
    /\ StIdle /\ CiIdle /\ SdIdle /\ MtIdle /\ SpIdle /\ WlIdle /\ ApIdle /\ MoIdle
    /\ HkIdle /\ EmIdle /\ SuIdle /\ DuIdle /\ SrIdle /\ OmIdle /\ GsIdle /\ TmIdle
    /\ SkIdle /\ LfIdle /\ SxIdle /\ RmIdle /\ HdIdle /\ LkIdle /\ NpIdle
InitLockOrder == LkInit /\ FqIdle /\ PlIdle /\ AlIdle /\ IdIdle /\ SbIdle /\ SlIdle
    /\ StIdle /\ CiIdle /\ SdIdle /\ MtIdle /\ SpIdle /\ WlIdle /\ ApIdle /\ MoIdle
    /\ HkIdle /\ EmIdle /\ SuIdle /\ DuIdle /\ SrIdle /\ OmIdle /\ GsIdle /\ TmIdle
    /\ SkIdle /\ LfIdle /\ SxIdle /\ RmIdle /\ HdIdle /\ QdIdle /\ NpIdle
InitPanelIds == NpInit /\ FqIdle /\ PlIdle /\ AlIdle /\ IdIdle /\ SbIdle /\ SlIdle
    /\ StIdle /\ CiIdle /\ SdIdle /\ MtIdle /\ SpIdle /\ WlIdle /\ ApIdle /\ MoIdle
    /\ HkIdle /\ EmIdle /\ SuIdle /\ DuIdle /\ SrIdle /\ OmIdle /\ GsIdle /\ TmIdle
    /\ SkIdle /\ LfIdle /\ SxIdle /\ RmIdle /\ HdIdle /\ QdIdle /\ LkIdle

SpecFreq == InitFreq /\ [][FqNext]_vars
SpecPools == InitPools /\ [][PlNext]_vars
SpecAlerts == InitAlerts /\ [][AlNext]_vars
SpecNextId == InitNextId /\ [][IdNext]_vars
SpecCaches == InitCaches /\ [][AlCacheNext \/ IdCacheNext \/ SbCacheNext]_vars
SpecSendLoop == InitSendLoop /\ [][SlNext]_vars
SpecSticky == InitSticky /\ [][StNext]_vars
SpecPoolInit == InitPoolInit /\ [][CiNext]_vars
SpecShutdown == InitShutdown /\ [][ShutdownNext]_vars /\ SdFairness
SpecTracker == InitTracker /\ [][MtNext]_vars
SpecPanels == InitPanels /\ [][SpNext]_vars
SpecWelcome == InitWelcome /\ [][WlNext]_vars
SpecPush == InitPush /\ [][ApNext]_vars
SpecMonitor == InitMonitor /\ [][MoNext]_vars
SpecHaiku == InitHaiku /\ [][HkNext]_vars /\ HkFairness
SpecEdit == InitEdit /\ [][EmNext]_vars
SpecSetup == InitSetup /\ [][SuNext]_vars
SpecDebounce == InitDebounce /\ [][DuNext]_vars
SpecStar == InitStar /\ [][SrNext]_vars
SpecOnMessage == InitOnMessage /\ [][OmNext]_vars
SpecSettingsGet == InitSettingsGet /\ [][GsNext]_vars
SpecTempHide == InitTempHide /\ [][TmNext]_vars
SpecStickyRace == InitStickyRace /\ [][SkNext]_vars
SpecLfg == InitLfg /\ [][LfNext]_vars
SpecStopRace == InitCommands /\ [][SxLoopNext]_vars
SpecAutocomplete == InitCommands /\ [][SxAutocompleteNext]_vars
SpecReminder == InitReminder /\ [][RmNext]_vars
SpecDetection == InitDetection /\ [][HdNext]_vars
SpecDiscard == InitDiscard /\ [][QdNext]_vars
SpecLockOrder == InitLockOrder /\ [][LkNext]_vars
SpecPanelIds == InitPanelIds /\ [][NpNext]_vars

=============================================================================
